---- MODULE Spec2Model ----
(***************************************************************************)
(* Model of the listing pipeline of the dashboard:                         *)
(*   src/src/data/enrichment.py  (enrich_listings and its helpers)         *)
(*   src/src/data/filters.py     (apply_global_filters)                    *)
(*   src/src/data/loader.py      (_normalize_sentinels, scraped_at parse)  *)
(*   src/src/ui/utils/currency.py (series_to_currency, scalar_to_currency) *)
(* A DataFrame is a record [cols, rows, attrs]; a cell is a tagged value   *)
(* (null / exact rational number / infinity / text / timestamp).  Text is  *)
(* a sequence of one-character strings so that lower(), strip() and the    *)
(* lease regular expression are computed, not assumed.                     *)
(***************************************************************************)
EXTENDS Integers, Sequences, FiniteSets, TLC

VARIABLES raw, enriched, filters, filtered, now, CURRENT_YEAR, pc,
          alias, given, sheet, reasons, conv, call, cache

vars == <<raw, enriched, filters, filtered, now, CURRENT_YEAR, pc,
          alias, given, sheet, reasons, conv, call, cache>>

\* the state of loader.py, currency.py, of the helpers called on their own
\* and of the cache, which a run of main() over a loaded snapshot leaves alone
aside == <<sheet, reasons, conv, call, cache>>

(***************************************************************************)
(* Bounds of the model.                                                    *)
(***************************************************************************)
MaxRows == 2
MaxLeaseRows == 1
MaxOutlierRows == 3
MaxPredicates == 2
MaxClock == 2
TicksPerDay == 2

(***************************************************************************)
(* Cells.                                                                  *)
(***************************************************************************)
Null == [k |-> "null", n |-> 0, d |-> 1, s |-> <<>>]

Abs(x) == IF x < 0 THEN -x ELSE x

RECURSIVE GCD(_, _)
GCD(a, b) == IF b = 0 THEN a ELSE GCD(b, a % b)

\* an exact number n/d in lowest terms, d > 0 (a float64 cell)
Q(n, d) ==
    LET g == GCD(Abs(n), Abs(d))
        sgn == IF d < 0 THEN -1 ELSE 1
    IN [k |-> "num", n |-> sgn * (n \div g), d |-> sgn * (d \div g), s |-> <<>>]

Num(n) == [k |-> "num", n |-> n, d |-> 1, s |-> <<>>]

\* float infinity, sign in n
Inf(sgn) == [k |-> "inf", n |-> sgn, d |-> 1, s |-> <<>>]

Str(s) == [k |-> "str", n |-> 0, d |-> 1, s |-> s]

\* a naive UTC timestamp, in ticks
Ts(t) == [k |-> "ts", n |-> t, d |-> 1, s |-> <<>>]

IsNull(c) == c.k = "null"
NotNa(c) == c.k # "null"
IsNum(c) == c.k = "num"
IsFloat(c) == c.k \in {"num", "inf"}

(***************************************************************************)
(* float64 arithmetic on cells, NaN (null) propagating.                    *)
(***************************************************************************)
Sign(x) == IF x < 0 THEN -1 ELSE IF x = 0 THEN 0 ELSE 1

FMul(a, b) ==
    IF ~IsFloat(a) \/ ~IsFloat(b) THEN Null
    ELSE IF IsNum(a) /\ IsNum(b) THEN Q(a.n * b.n, a.d * b.d)
    ELSE IF Sign(a.n) * Sign(b.n) = 0 THEN Null
    ELSE Inf(Sign(a.n) * Sign(b.n))

\* true division of float64 arrays: x/0 is +-inf, 0/0 is NaN, no exception
FDiv(a, b) ==
    IF ~IsFloat(a) \/ ~IsFloat(b) THEN Null
    ELSE IF IsNum(a) /\ IsNum(b)
         THEN IF b.n # 0 THEN Q(a.n * b.d, a.d * b.n)
              ELSE IF a.n = 0 THEN Null ELSE Inf(Sign(a.n))
    ELSE IF a.k = "inf" /\ b.k = "inf" THEN Null
    ELSE IF a.k = "inf" THEN Inf(a.n * (IF b.n < 0 THEN -1 ELSE 1))
    ELSE Num(0)

FAdd(a, b) ==
    IF ~IsFloat(a) \/ ~IsFloat(b) THEN Null
    ELSE IF IsNum(a) /\ IsNum(b) THEN Q(a.n * b.d + b.n * a.d, a.d * b.d)
    ELSE IF a.k = "inf" /\ b.k = "inf"
         THEN IF a.n = b.n THEN a ELSE Null
    ELSE IF a.k = "inf" THEN a ELSE b

FNeg(a) ==
    IF IsNum(a) THEN Q(-a.n, a.d)
    ELSE IF a.k = "inf" THEN Inf(-a.n)
    ELSE Null

FSub(a, b) == FAdd(a, FNeg(b))

\* a < b on floats; any comparison with NaN is False
FLt(a, b) ==
    IF ~IsFloat(a) \/ ~IsFloat(b) THEN FALSE
    ELSE IF IsNum(a) /\ IsNum(b) THEN a.n * b.d < b.n * a.d
    ELSE IF a.k = "inf" /\ b.k = "inf" THEN a.n < b.n
    ELSE IF a.k = "inf" THEN a.n < 0
    ELSE b.n > 0

FGt(a, b) == FLt(b, a)
FLe(a, b) == IsFloat(a) /\ IsFloat(b) /\ ~FLt(b, a)
FGe(a, b) == FLe(b, a)

\* np.clip(x, lo, hi) on a non-NaN float
Clip(x, lo, hi) ==
    IF FLt(x, Num(lo)) THEN Num(lo)
    ELSE IF FGt(x, Num(hi)) THEN Num(hi)
    ELSE x

(***************************************************************************)
(* Text.                                                                   *)
(***************************************************************************)
Upper == <<"A", "B", "C", "D", "E", "F", "G", "H", "I", "J", "K", "L", "M",
           "N", "O", "P", "Q", "R", "S", "T", "U", "V", "W", "X", "Y", "Z">>
LowerLetters == <<"a", "b", "c", "d", "e", "f", "g", "h", "i", "j", "k", "l", "m",
                  "n", "o", "p", "q", "r", "s", "t", "u", "v", "w", "x", "y", "z">>
Digits == <<"0", "1", "2", "3", "4", "5", "6", "7", "8", "9">>
Whitespace == {" ", "\t", "\n"}

LowerChar(c) ==
    IF \E i \in 1..26 : Upper[i] = c
    THEN LowerLetters[CHOOSE i \in 1..26 : Upper[i] = c]
    ELSE c

\* str.lower()
Lower(s) == [i \in 1..Len(s) |-> LowerChar(s[i])]

\* str.strip()
Strip(s) ==
    LET keep == {i \in 1..Len(s) : s[i] \notin Whitespace}
    IN IF keep = {} THEN <<>>
       ELSE LET lo == CHOOSE i \in keep : \A j \in keep : i <= j
                hi == CHOOSE i \in keep : \A j \in keep : j <= i
            IN SubSeq(s, lo, hi)

IsDigit(c) == \E i \in 1..10 : Digits[i] = c
DigitVal(c) == (CHOOSE i \in 1..10 : Digits[i] = c) - 1

RECURSIVE DigitsVal(_)
DigitsVal(s) ==
    IF s = <<>> THEN 0
    ELSE 10 * DigitsVal(SubSeq(s, 1, Len(s) - 1)) + DigitVal(s[Len(s)])

AllDigits(s) == s # <<>> /\ \A i \in 1..Len(s) : IsDigit(s[i])

IsPrefixAt(u, s, j) ==
    /\ j + Len(u) - 1 <= Len(s)
    /\ \A i \in 1..Len(u) : s[j + i - 1] = u[i]

\* the year-unit alternatives of LEASE_REGEX
LeaseUnits ==
    { <<"y", "e", "a", "r", "s">>, <<"y", "e", "a", "r">>, <<"y", "r", "s">>,
      <<"y", "r">>, <<"t", "h">>, <<"t", "a", "h", "u", "n">> }

RECURSIVE SkipWs(_, _)
SkipWs(s, j) ==
    IF j <= Len(s) /\ s[j] \in Whitespace THEN SkipWs(s, j + 1) ELSE j

\* LEASE_REGEX matched at position i with a digit group of length l
LeaseMatchLen(s, i, l) ==
    /\ i + l - 1 <= Len(s)
    /\ \A m \in i..(i + l - 1) : IsDigit(s[m])
    /\ \E u \in LeaseUnits : IsPrefixAt(u, Lower(s), SkipWs(s, i + l))

LeaseMatchAt(s, i) == LeaseMatchLen(s, i, 2) \/ LeaseMatchLen(s, i, 1)

\* LEASE_REGEX.search(s): leftmost match, greedy digit group; -1 is no match,
\* otherwise int(match.group(1))
LEASE_REGEX(s) ==
    IF ~\E i \in 1..Len(s) : LeaseMatchAt(s, i) THEN -1
    ELSE LET i == CHOOSE a \in 1..Len(s) :
                    /\ LeaseMatchAt(s, a)
                    /\ \A b \in 1..(a - 1) : ~LeaseMatchAt(s, b)
             l == IF LeaseMatchLen(s, i, 2) THEN 2 ELSE 1
         IN DigitsVal(SubSeq(s, i, i + l - 1))

\* float(text): an optionally signed run of digits parses, anything else
\* raises ValueError (Null here)
ParseFloat(s) ==
    IF AllDigits(s) THEN Num(DigitsVal(s))
    ELSE IF Len(s) > 1 /\ s[1] = "-" /\ AllDigits(Tail(s)) THEN Num(-DigitsVal(Tail(s)))
    ELSE Null

\* float(text) returns NaN without raising for "nan" in any casing, signed
\* or not
FloatIsNan(s) ==
    Lower(s) \in {<<"n", "a", "n">>, <<"+", "n", "a", "n">>, <<"-", "n", "a", "n">>}

\* pd.to_numeric(series, errors="coerce") on one cell
_to_numeric(c) ==
    IF IsFloat(c) THEN c
    ELSE IF c.k = "str" THEN ParseFloat(c.s)
    ELSE Null

\* pd.to_datetime(series, errors="coerce", utc=True).dt.tz_convert(None) on
\* one cell: timestamps stay, text that is no date and nulls become NaT
_coerce_datetime(c) == IF c.k = "ts" THEN c ELSE Null

\* Series.astype(str) on one cell of a text column
AsStr(c) == IF c.k = "str" THEN c.s ELSE <<"n", "a", "n">>

(***************************************************************************)
(* enrichment.py, per row.  cols is the set of columns of the frame; a     *)
(* column that is absent has Null in every row and is not in cols.         *)
(***************************************************************************)
T_for_sale == <<"f", "o", "r", " ", "s", "a", "l", "e">>
T_leasehold == <<"l", "e", "a", "s", "e", "h", "o", "l", "d">>

numeric_cols ==
    {"price_idr", "sale_price_idr", "rent_price_month_idr", "bedrooms",
     "land_size_sqm", "building_size_sqm", "lease_duration", "lease_expiry_year"}

datetime_cols == {"scraped_at", "listing_date"}

\* lines 190-197: numeric and datetime coercion of the columns that exist
Coerce(cols, r) ==
    [c \in DOMAIN r |->
        IF c \in numeric_cols /\ c \in cols THEN _to_numeric(r[c])
        ELSE IF c \in datetime_cols /\ c \in cols THEN _coerce_datetime(r[c])
        ELSE r[c]]

\* lines 199-204; "raise" when fillna() is handed None
listing_date_effective(cols, r) ==
    IF "listing_date" \in cols
    THEN IF NotNa(r.listing_date) THEN _coerce_datetime(r.listing_date)
         ELSE _coerce_datetime(r.scraped_at)
    ELSE IF "scraped_at" \in cols THEN _coerce_datetime(r.scraped_at)
    ELSE Null

EffectiveDateRaises(cols) == "listing_date" \in cols /\ "scraped_at" \notin cols

mask_sale(cols, r) ==
    "listing_type" \in cols /\ Lower(AsStr(r.listing_type)) = T_for_sale

\* mutant: the price_idr fallback fills every row that is still NaN
_compute_price_sale_idr_unmasked(cols, r) ==
    LET s1 == IF "sale_price_idr" \in cols /\ mask_sale(cols, r)
              THEN _to_numeric(r.sale_price_idr) ELSE Null
    IN IF "price_idr" \in cols /\ IsNull(s1)
       THEN _to_numeric(r.price_idr)
       ELSE s1

_compute_price_sale_idr(cols, r) ==
    LET s1 == IF "sale_price_idr" \in cols /\ mask_sale(cols, r)
              THEN _to_numeric(r.sale_price_idr) ELSE Null
    IN IF "price_idr" \in cols /\ mask_sale(cols, r) /\ IsNull(s1)
       THEN _to_numeric(r.price_idr)
       ELSE s1

daily_aliases ==
    { <<"d", "a", "y">>, <<"d", "a", "i", "l", "y">>, <<"h", "a", "r", "i", "a", "n">> }
weekly_aliases ==
    { <<"w", "e", "e", "k">>, <<"w", "e", "e", "k", "l", "y">>,
      <<"m", "i", "n", "g", "g", "u", "a", "n">> }
monthly_aliases ==
    { <<"m", "o", "n", "t", "h">>, <<"m", "o", "n", "t", "h", "l", "y">>,
      <<"b", "u", "l", "a", "n", "a", "n">> }
yearly_aliases ==
    { <<"y", "e", "a", "r">>, <<"y", "e", "a", "r", "l", "y">>,
      <<"a", "n", "n", "u", "a", "l">>, <<"a", "n", "n", "u", "a", "l", "l", "y">>,
      <<"t", "a", "h", "u", "n">> }

\* the period column _normalise_rent_month reads: "" when there is none
RentPeriodCol(cols) ==
    IF "rent_period_base" \in cols THEN "rent_period_base"
    ELSE IF "rent_period" \in cols THEN "rent_period"
    ELSE ""

\* mutant: the conversion is applied wherever a fallback price exists
_normalise_rent_month_overwrite(cols, r) ==
    LET rent_norm == IF "rent_price_month_idr" \in cols
                     THEN _to_numeric(r.rent_price_month_idr) ELSE Null
        fallback_price == IF "price_idr" \in cols THEN _to_numeric(r.price_idr)
                          ELSE rent_norm
        pcol == RentPeriodCol(cols)
    IN IF pcol = "" THEN rent_norm
       ELSE
       LET normalized_period == Strip(Lower(AsStr(r[pcol])))
           mask == NotNa(fallback_price)
       IN IF mask /\ normalized_period \in yearly_aliases
          THEN FDiv(fallback_price, Num(12))
          ELSE IF mask /\ normalized_period \in monthly_aliases THEN fallback_price
          ELSE IF mask /\ normalized_period \in weekly_aliases
               THEN FMul(fallback_price, Q(43, 10))
          ELSE IF mask /\ normalized_period \in daily_aliases
               THEN FMul(fallback_price, Num(30))
          ELSE rent_norm

_normalise_rent_month(cols, r) ==
    LET rent_norm == IF "rent_price_month_idr" \in cols
                     THEN _to_numeric(r.rent_price_month_idr) ELSE Null
        fallback_price == IF "price_idr" \in cols THEN _to_numeric(r.price_idr)
                          ELSE rent_norm
        pcol == RentPeriodCol(cols)
    IN IF pcol = "" THEN rent_norm
       ELSE
       LET normalized_period == Strip(Lower(AsStr(r[pcol])))
           mask_missing == IsNull(rent_norm) /\ NotNa(fallback_price)
           p1 == IF mask_missing /\ normalized_period \in daily_aliases
                 THEN FMul(fallback_price, Num(30)) ELSE rent_norm
           p2 == IF mask_missing /\ normalized_period \in weekly_aliases
                 THEN FMul(fallback_price, Q(43, 10)) ELSE p1
           p3 == IF mask_missing /\ normalized_period \in monthly_aliases
                 THEN fallback_price ELSE p2
           p4 == IF mask_missing /\ normalized_period \in yearly_aliases
                 THEN FDiv(fallback_price, Num(12)) ELSE p3
       IN p4

\* mutant: the expiry difference is returned without the clamp
_estimate_lease_years_unclamped(cols, r, year) ==
    LET ownership == IF "ownership_type" \in cols /\ r.ownership_type.k = "str"
                     THEN Lower(r.ownership_type.s) ELSE <<>>
        lease_duration == IF "lease_duration" \in cols THEN r.lease_duration ELSE Null
        expiry == IF "lease_expiry_year" \in cols THEN r.lease_expiry_year ELSE Null
    IN IF ownership # T_leasehold THEN Null
       ELSE IF IsFloat(lease_duration) THEN Clip(lease_duration, 1, 99)
       ELSE IF IsFloat(expiry) /\ FGt(FSub(expiry, Num(year)), Num(0))
            THEN FSub(expiry, Num(year))
       ELSE IF "description" \in cols /\ r.description.k = "str"
               /\ LEASE_REGEX(r.description.s) >= 0
            THEN Clip(Num(LEASE_REGEX(r.description.s)), 1, 99)
       ELSE Null

\* the row as _estimate_lease_years receives it; year is CURRENT_YEAR
_estimate_lease_years(cols, r, year) ==
    LET ownership == IF "ownership_type" \in cols /\ r.ownership_type.k = "str"
                     THEN Lower(r.ownership_type.s)
                     ELSE IF "ownership_type" \in cols THEN <<"n", "a", "n">>
                     ELSE <<>>
        lease_duration == IF "lease_duration" \in cols THEN r.lease_duration ELSE Null
        expiry == IF "lease_expiry_year" \in cols THEN r.lease_expiry_year ELSE Null
        fromDescription ==
            IF "description" \in cols /\ r.description.k = "str"
               /\ LEASE_REGEX(r.description.s) >= 0
            THEN Clip(Num(LEASE_REGEX(r.description.s)), 1, 99)
            ELSE Null
        fromExpiry ==
            IF IsFloat(expiry) /\ FGt(FSub(expiry, Num(year)), Num(0))
            THEN Clip(FSub(expiry, Num(year)), 1, 99)
            ELSE IF expiry.k = "str" /\ NotNa(ParseFloat(expiry.s))
                    /\ FGt(FSub(ParseFloat(expiry.s), Num(year)), Num(0))
            THEN Clip(FSub(ParseFloat(expiry.s), Num(year)), 1, 99)
            ELSE fromDescription
    IN IF ownership # T_leasehold THEN Null
       ELSE IF IsFloat(lease_duration) THEN Clip(lease_duration, 1, 99)
       ELSE IF lease_duration.k = "str" /\ LEASE_REGEX(lease_duration.s) >= 0
            THEN Clip(Num(LEASE_REGEX(lease_duration.s)), 1, 99)
       ELSE IF lease_duration.k = "str" /\ NotNa(ParseFloat(Strip(lease_duration.s)))
            THEN Clip(ParseFloat(Strip(lease_duration.s)), 1, 99)
       ELSE IF lease_duration.k = "str" /\ FloatIsNan(Strip(lease_duration.s))
            THEN Null
       ELSE fromExpiry

\* Series.replace({0: np.nan})
ZeroToNan(c) == IF IsNum(c) /\ c.n = 0 THEN Null ELSE c

SizeCell(cols, r, c) == IF c \in cols THEN _to_numeric(r[c]) ELSE Null

\* mutant: a building size of 0 is divided by as it stands
price_per_sqm_zero_kept(cols, r, price_sale) ==
    LET price_per_sqm_building ==
            FDiv(price_sale, SizeCell(cols, r, "building_size_sqm"))
        fallback == FDiv(price_sale, ZeroToNan(SizeCell(cols, r, "land_size_sqm")))
    IN IF IsNull(price_per_sqm_building) THEN fallback ELSE price_per_sqm_building

\* first component of _compute_price_per_sqm; price_sale is the derived column
price_per_sqm(cols, r, price_sale) ==
    LET price_per_sqm_building ==
            FDiv(price_sale, ZeroToNan(SizeCell(cols, r, "building_size_sqm")))
        fallback == FDiv(price_sale, ZeroToNan(SizeCell(cols, r, "land_size_sqm")))
    IN IF IsNull(price_per_sqm_building) THEN fallback ELSE price_per_sqm_building

\* second component of _compute_price_per_sqm
price_per_sqm_land(cols, r, price_sale) ==
    FDiv(price_sale, ZeroToNan(SizeCell(cols, r, "land_size_sqm")))

\* mutant: the day difference is not clipped
days_listed_unclipped(cols, w, eff, clock) ==
    LET reference_date == IF "scraped_at" \in cols /\ NotNa(w.scraped_at)
                          THEN w.scraped_at ELSE Ts(clock)
    IN IF NotNa(eff)
       THEN Num((reference_date.n - eff.n) \div TicksPerDay)
       ELSE Null

\* lines 247-263: reference date, whole days (floor), clipped at 0
days_listed(cols, w, eff, clock) ==
    LET reference_date == IF "scraped_at" \in cols /\ NotNa(w.scraped_at)
                          THEN w.scraped_at ELSE Ts(clock)
    IN IF NotNa(eff)
       THEN LET days == (reference_date.n - eff.n) \div TicksPerDay
            IN Num(IF days < 0 THEN 0 ELSE days)
       ELSE Null

\* line 233-238: building_size is None when the column is absent, and
\* None.notna() raises AttributeError
AnnualRentRaises(cols) == "building_size_sqm" \notin cols

DerivedCols ==
    {"listing_date_effective", "price_sale_idr", "rent_price_month_idr_norm",
     "adr_idr", "lease_years_remaining", "price_per_sqm_idr_calc",
     "price_per_sqm_land_idr_calc", "price_per_sqm_per_year",
     "price_per_sqm_per_year_freehold", "annual_rent_per_sqm", "yield_pct_proxy",
     "days_listed"}

\* mutant: a row without lease years falls back to the 30-year horizon
price_per_sqm_per_year_horizon(ppsqm, lease) ==
    IF FGt(lease, Num(0)) THEN FDiv(ppsqm, lease) ELSE FDiv(ppsqm, Num(30))

\* lines 218-222
price_per_sqm_per_year(ppsqm, lease) ==
    IF FGt(lease, Num(0)) THEN FDiv(ppsqm, lease) ELSE Null

\* lines 172-263 for one row: the coerced row with its derived columns
EnrichRow(cols, r, clock, year) ==
    LET w == Coerce(cols, r)
        eff == listing_date_effective(cols, w)
        sale == _compute_price_sale_idr(cols, w)
        rent == _normalise_rent_month(cols, w)
        lease == _estimate_lease_years(cols, w, year)
        ppsqm == price_per_sqm(cols, w, sale)
        ppsy == price_per_sqm_per_year(ppsqm, lease)
        building_size == w.building_size_sqm
        annual == IF NotNa(rent) /\ NotNa(building_size) /\ FGt(building_size, Num(0))
                  THEN FDiv(FMul(rent, Num(12)), building_size)
                  ELSE Null
        yield == IF NotNa(annual) /\ NotNa(ppsqm)
                 THEN FMul(FDiv(annual, ppsqm), Num(100))
                 ELSE Null
    IN [listing_date_effective |-> eff,
        price_sale_idr |-> sale,
        rent_price_month_idr_norm |-> rent,
        adr_idr |-> FDiv(rent, Num(30)),
        lease_years_remaining |-> lease,
        price_per_sqm_idr_calc |-> ppsqm,
        price_per_sqm_land_idr_calc |-> price_per_sqm_land(cols, w, sale),
        price_per_sqm_per_year |-> ppsy,
        price_per_sqm_per_year_freehold |->
            IF NotNa(ppsqm) THEN FDiv(ppsqm, Num(30)) ELSE Null,
        annual_rent_per_sqm |-> annual,
        yield_pct_proxy |-> yield,
        days_listed |-> days_listed(cols, w, eff, clock)] @@ w

(***************************************************************************)
(* Outlier flags.                                                          *)
(***************************************************************************)
OutlierColumns ==
    <<"price_sale_idr", "rent_price_month_idr_norm", "price_per_sqm_idr_calc",
      "price_per_sqm_per_year", "annual_rent_per_sqm", "yield_pct_proxy">>

OutlierColumnSet == {OutlierColumns[i] : i \in 1..Len(OutlierColumns)}

\* df[col].dropna(), sorted
SortedNonNull(rows, col) ==
    SortSeq(SelectSeq([i \in 1..Len(rows) |-> rows[i][col]], NotNa), FLt)

\* numpy's linear interpolation between two neighbours
Lerp(a, b, t) ==
    LET diff_b_a == FSub(b, a)
    IN IF FGe(t, Q(1, 2)) THEN FSub(b, FMul(diff_b_a, FSub(Num(1), t)))
       ELSE FAdd(a, FMul(diff_b_a, t))

\* Series.quantile(qn/100) of the sorted non-null values v, linear interpolation
Quantile(v, qn) ==
    LET n == Len(v)
        lo == ((n - 1) * qn) \div 100 + 1
        hi == IF lo + 1 > n THEN n ELSE lo + 1
        gamma == Q(((n - 1) * qn) % 100, 100)
    IN Lerp(v[lo], v[hi], gamma)

q_low(rows, col) == Quantile(SortedNonNull(rows, col), 1)
q_high(rows, col) == Quantile(SortedNonNull(rows, col), 99)

\* line 149: the column has a threshold
HasThreshold(rows, col) == SortedNonNull(rows, col) # <<>>

\* mutant: the comparison with the thresholds is not strict
OutlierMask_inclusive(rows, col, r) ==
    /\ HasThreshold(rows, col)
    /\ NotNa(r[col])
    /\ (FLe(r[col], q_low(rows, col)) \/ FGe(r[col], q_high(rows, col)))

\* lines 152-154 for one row
OutlierMask(rows, col, r) ==
    /\ HasThreshold(rows, col)
    /\ NotNa(r[col])
    /\ (FLt(r[col], q_low(rows, col)) \/ FGt(r[col], q_high(rows, col)))

NoAttrs ==
    [outlier_thresholds |-> <<>>,
     diagnostics |-> [rows |-> -1, computed_at |-> -1],
     applied_filters |-> {}]

\* mutant: is_outlier_any asks for every per-field flag
_flag_outliers_all(df) ==
    LET flags(r) == [c \in OutlierColumnSet |-> OutlierMask(df.rows, c, r)]
    IN [cols |-> df.cols \cup {"is_outlier", "is_outlier_any"},
        rows |-> [i \in 1..Len(df.rows) |->
                    [is_outlier |-> flags(df.rows[i]),
                     is_outlier_any |-> \A c \in OutlierColumnSet : flags(df.rows[i])[c]]
                    @@ df.rows[i]],
        attrs |-> [df.attrs EXCEPT !.outlier_thresholds =
                    [c \in {x \in OutlierColumnSet : HasThreshold(df.rows, x)} |->
                        [lower |-> q_low(df.rows, c), upper |-> q_high(df.rows, c)]]],
        err |-> ""]

_flag_outliers(df) ==
    LET flags(r) == [c \in OutlierColumnSet |-> OutlierMask(df.rows, c, r)]
    IN [cols |-> df.cols \cup {"is_outlier", "is_outlier_any"},
        rows |-> [i \in 1..Len(df.rows) |->
                    [is_outlier |-> flags(df.rows[i]),
                     is_outlier_any |-> \E c \in OutlierColumnSet : flags(df.rows[i])[c]]
                    @@ df.rows[i]],
        attrs |-> [df.attrs EXCEPT !.outlier_thresholds =
                    [c \in {x \in OutlierColumnSet : HasThreshold(df.rows, x)} |->
                        [lower |-> q_low(df.rows, c), upper |-> q_high(df.rows, c)]]],
        err |-> ""]

Raised(e) == [cols |-> {}, rows |-> <<>>, attrs |-> NoAttrs, err |-> e]

enrich_listings(df, clock, year) ==
    IF df.rows = <<>> THEN df
    ELSE IF EffectiveDateRaises(df.cols) THEN Raised("ValueError")
    ELSE IF AnnualRentRaises(df.cols) THEN Raised("AttributeError")
    ELSE _flag_outliers(
            [cols |-> df.cols \cup DerivedCols,
             rows |-> [i \in 1..Len(df.rows) |->
                         EnrichRow(df.cols, df.rows[i], clock, year)],
             attrs |-> [df.attrs EXCEPT !.diagnostics =
                         [rows |-> Len(df.rows), computed_at |-> clock]],
             err |-> ""])

\* the call: the frame passed in as the call leaves it (line 172 works on a
\* copy, an exception leaves the copy behind), the frame returned, and
\* whether the two are one object (line 170)
EnrichCall(df, clock, year) ==
    [input |-> df,
     out |-> enrich_listings(df, clock, year),
     alias |-> df.rows = <<>>]

(***************************************************************************)
(* filters.py.  An optional list is [none, items]; an optional range is    *)
(* [none, lo, hi] with Null for an open bound.                             *)
(***************************************************************************)
NoList == [none |-> TRUE, items |-> {}]
List(S) == [none |-> FALSE, items |-> S]
NoRange == [none |-> TRUE, lo |-> Null, hi |-> Null]
Range(lo, hi) == [none |-> FALSE, lo |-> lo, hi |-> hi]

\* mutant: the field is tested with "is not None", so an empty list filters
TruthyList_not_none(l) == ~l.none

\* Python truth of an optional list / an optional tuple
TruthyList(l) == ~l.none /\ l.items # {}
TruthyRange(g) == ~g.none

DEFAULT_FILTERS ==
    [date_range |-> <<Null, Null>>,
     listing_type |-> Null,
     property_types |-> NoList,
     areas |-> NoList,
     bedrooms_bucket |-> NoList,
     ownership |-> NoList,
     property_status |-> NoList,
     seller_type |-> NoList,
     price_range |-> NoRange,
     rent_range |-> NoRange,
     building_size_range |-> NoRange,
     land_size_range |-> NoRange,
     hide_outliers |-> FALSE,
     assumed_freehold_horizon |-> 30]

\* Series.isin(list) on one cell of a text column
IsIn(c, l) == c.k = "str" /\ c.s \in l.items

date_col_candidates == <<"listing_date_effective", "listing_date", "scraped_at">>
seller_columns == <<"seller_type", "source_category", "listing_agency_type">>

\* next((col for col in candidates if col in columns), None); "" is None
FirstPresent(cands, cols) ==
    IF \E i \in 1..Len(cands) : cands[i] \in cols
    THEN cands[CHOOSE i \in 1..Len(cands) :
                 cands[i] \in cols /\ \A j \in 1..(i - 1) : cands[j] \notin cols]
    ELSE ""

\* lines 68-80
KeepDate(cols, f, r) ==
    LET date_col == FirstPresent(date_col_candidates, cols)
    IN date_col = ""
       \/ /\ (IsNull(f.date_range[1])
              \/ (r[date_col].k = "ts" /\ r[date_col].n >= f.date_range[1].n))
          /\ (IsNull(f.date_range[2])
              \/ (r[date_col].k = "ts" /\ r[date_col].n <= f.date_range[2].n))

\* lines 82-85
KeepListingType(cols, f, r) ==
    (f.listing_type.k = "str" /\ f.listing_type.s # <<>> /\ "listing_type" \in cols)
        => Lower(AsStr(r.listing_type)) = Lower(f.listing_type.s)

\* lines 87-91, 103-104: a plain set-membership predicate
KeepMember(cols, l, col, r) ==
    (TruthyList(l) /\ col \in cols) => IsIn(r[col], l)

\* mutant: the ownership selection is applied to every row, rentals included
KeepOwnership_every(cols, f, r) ==
    (TruthyList(f.ownership) /\ "ownership_type" \in cols) =>
        IsIn(r.ownership_type, f.ownership)

\* lines 93-101
KeepOwnership(cols, f, r) ==
    (TruthyList(f.ownership) /\ "ownership_type" \in cols) =>
        IF "listing_type" \in cols
        THEN Lower(AsStr(r.listing_type)) # T_for_sale \/ IsIn(r.ownership_type, f.ownership)
        ELSE IsIn(r.ownership_type, f.ownership)

\* lines 106-109
KeepSeller(cols, f, r) ==
    LET seller_col == FirstPresent(seller_columns, cols)
    IN (TruthyList(f.seller_type) /\ seller_col # "") => IsIn(r[seller_col], f.seller_type)

\* bucket_map: <<low, high>>, -1 is None
bucket_map(b) ==
    CASE b = "1" -> <<1, 1>>
      [] b = "2" -> <<2, 2>>
      [] b = "3-4" -> <<3, 4>>
      [] b = "5+" -> <<5, -1>>
      [] OTHER -> <<-1, -1>>

\* lines 111-133
KeepBedrooms(cols, f, r) ==
    LET known == {b \in f.bedrooms_bucket.items : bucket_map(b) # <<-1, -1>>}
    IN (TruthyList(f.bedrooms_bucket) /\ "bedrooms" \in cols /\ known # {}) =>
        \E b \in known :
            /\ NotNa(r.bedrooms)
            /\ FGe(r.bedrooms, Num(bucket_map(b)[1]))
            /\ (bucket_map(b)[2] # -1 => FLe(r.bedrooms, Num(bucket_map(b)[2])))

\* mutant: the bounds themselves are excluded
InRange_exclusive(g, v) ==
    /\ (NotNa(g.lo) => FGt(v, g.lo))
    /\ (NotNa(g.hi) => FLt(v, g.hi))

\* one range over a numeric series value v
InRange(g, v) ==
    /\ (NotNa(g.lo) => FGe(v, g.lo))
    /\ (NotNa(g.hi) => FLe(v, g.hi))

\* mutant: the sale price alone, without the raw-price fallback
price_series_sale_only(r) == _to_numeric(r.price_sale_idr)

\* line 137-138
price_series(r) ==
    _to_numeric(IF NotNa(r.price_sale_idr) THEN r.price_sale_idr ELSE r.price_idr)

\* lines 135-142
KeepPrice(cols, f, r) ==
    (TruthyRange(f.price_range) /\ "price_sale_idr" \in cols)
        => InRange(f.price_range, price_series(r))

\* line 137: fillna(None) when the frame has no price_idr column
PriceRangeRaises(cols, f) ==
    TruthyRange(f.price_range) /\ "price_sale_idr" \in cols /\ "price_idr" \notin cols

\* mutant: a row without the value passes the range
KeepRange_missing_kept(cols, g, col, r) ==
    (TruthyRange(g) /\ col \in cols) =>
        (IsNull(_to_numeric(r[col])) \/ InRange(g, _to_numeric(r[col])))

\* lines 144-166
KeepRange(cols, g, col, r) ==
    (TruthyRange(g) /\ col \in cols) => InRange(g, _to_numeric(r[col]))

\* lines 168-169
KeepOutliers(cols, f, r) ==
    (f.hide_outliers /\ "is_outlier_any" \in cols) => ~r.is_outlier_any

KeepRow(cols, f, r) ==
    /\ KeepDate(cols, f, r)
    /\ KeepListingType(cols, f, r)
    /\ KeepMember(cols, f.property_types, "property_type", r)
    /\ KeepMember(cols, f.areas, "area", r)
    /\ KeepOwnership(cols, f, r)
    /\ KeepMember(cols, f.property_status, "property_status", r)
    /\ KeepSeller(cols, f, r)
    /\ KeepBedrooms(cols, f, r)
    /\ KeepPrice(cols, f, r)
    /\ KeepRange(cols, f.rent_range, "rent_price_month_idr_norm", r)
    /\ KeepRange(cols, f.building_size_range, "building_size_sqm", r)
    /\ KeepRange(cols, f.land_size_range, "land_size_sqm", r)
    /\ KeepOutliers(cols, f, r)

\* lines 171-175
AddsAssumed(cols, f) ==
    f.assumed_freehold_horizon > 0 /\ "price_per_sqm_idr_calc" \in cols

WithAssumed(cols, f, r) ==
    IF AddsAssumed(cols, f)
    THEN [price_per_sqm_per_year_freehold_assumed |->
            FDiv(r.price_per_sqm_idr_calc, Num(f.assumed_freehold_horizon))] @@ r
    ELSE r

\* mutant: the outlier flags are recomputed over the rows the other
\* predicates retained, and hide_outliers reads those
FilteredFrame_reflagged(df, f) ==
    LET g == [f EXCEPT !.hide_outliers = FALSE]
        kept == SelectSeq(df.rows, LAMBDA r : KeepRow(df.cols, g, r))
        again == _flag_outliers([df EXCEPT !.rows = kept]).rows
        shown == SelectSeq(again, LAMBDA r : KeepOutliers(df.cols, f, r))
    IN [cols |-> IF AddsAssumed(df.cols, f)
                 THEN df.cols \cup {"price_per_sqm_per_year_freehold_assumed"}
                 ELSE df.cols,
        rows |-> [i \in 1..Len(shown) |-> WithAssumed(df.cols, f, shown[i])],
        attrs |-> [df.attrs EXCEPT !.applied_filters = {f}],
        err |-> ""]

\* the frame apply_global_filters returns
FilteredFrame(df, f) ==
    LET kept == SelectSeq(df.rows, LAMBDA r : KeepRow(df.cols, f, r))
    IN [cols |-> IF AddsAssumed(df.cols, f)
                 THEN df.cols \cup {"price_per_sqm_per_year_freehold_assumed"}
                 ELSE df.cols,
        rows |-> [i \in 1..Len(kept) |-> WithAssumed(df.cols, f, kept[i])],
        attrs |-> [df.attrs EXCEPT !.applied_filters = {f}],
        err |-> ""]

\* the call: the frame passed in as the call leaves it (line 66 works on a
\* copy), the frame returned, and whether the two are one object (line 65)
apply_global_filters(df, f) ==
    IF df.rows = <<>> THEN [input |-> df, out |-> df, alias |-> TRUE]
    ELSE IF PriceRangeRaises(df.cols, f)
         THEN [input |-> df, out |-> Raised("ValueError"), alias |-> FALSE]
    ELSE [input |-> df, out |-> FilteredFrame(df, f), alias |-> FALSE]

(***************************************************************************)
(* The state machine: one run of main() over a loaded snapshot.            *)
(*   raw       the frame load_data() returned                              *)
(*   enriched  the frame enrich_listings(raw) returned                     *)
(*   filters   the filter specification of the last apply_global_filters   *)
(*   filtered  the frame it returned                                       *)
(*   now       the UTC clock, in ticks                                     *)
(*   CURRENT_YEAR  the module global, read once at import                  *)
(*   alias     whether the last call returned the very object it was passed*)
(*   given     the frame as it was when enrich_listings was handed it      *)
(*   sheet     the frame _load_data_impl is building                       *)
(*   reasons   the failure reasons _multi_parse_datetime returned          *)
(*   conv      the arguments and results of the currency projections       *)
(*   call      a helper called on its own: arguments and what it returned  *)
(*   cache     the st.cache_data entry of _load_data_impl                  *)
(***************************************************************************)
RawCols ==
    {"listing_type", "price_idr", "sale_price_idr", "rent_price_month_idr",
     "rent_period", "rent_period_base", "bedrooms", "land_size_sqm",
     "building_size_sqm", "ownership_type", "lease_duration", "lease_expiry_year",
     "description", "listing_date", "scraped_at", "property_type", "area",
     "property_status", "seller_type", "source_category", "listing_agency_type"}

\* the columns of the usual sheet: no rent_period_base, one seller column
SheetCols == RawCols \ {"rent_period_base", "source_category", "listing_agency_type"}

BaseRow ==
    [id |-> 0, listing_type |-> Null, price_idr |-> Null, sale_price_idr |-> Null,
     rent_price_month_idr |-> Null, rent_period |-> Null, rent_period_base |-> Null,
     bedrooms |-> Null, land_size_sqm |-> Null, building_size_sqm |-> Null,
     ownership_type |-> Null, lease_duration |-> Null, lease_expiry_year |-> Null,
     description |-> Null, listing_date |-> Null, scraped_at |-> Null,
     property_type |-> Null, area |-> Null, property_status |-> Null,
     seller_type |-> Null, source_category |-> Null, listing_agency_type |-> Null]

NoFrame == [cols |-> {}, rows |-> <<>>, attrs |-> NoAttrs, err |-> "unset"]

\* a frame with columns cols whose rows are f[1..n]; the index is 1..n and a
\* column that is not in cols has no cells
Frame(cols, f) ==
    [cols |-> cols,
     rows |-> [i \in DOMAIN f |->
                 [c \in DOMAIN BaseRow |->
                    IF c = "id" THEN Num(i)
                    ELSE IF c \in cols THEN f[i][c] ELSE Null]],
     attrs |-> NoAttrs,
     err |-> ""]

NoSheetAttrs == [sentinel_replacements |-> <<>>, diagnostics |-> <<>>]
NoSheet == [cols |-> {}, obj |-> {}, rows |-> <<>>, attrs |-> NoSheetAttrs, source |-> <<>>]
NoSeries == [none |-> TRUE, values |-> <<>>]
NoConv ==
    [target |-> "", series |-> <<>>, fallback_series |-> NoSeries,
     passed |-> <<>>, projected |-> FALSE, out |-> <<>>,
     each_done |-> FALSE, each |-> <<>>]

NoCall == [fn |-> "", args |-> <<>>, out |-> <<>>, returned |-> FALSE]
NoCache == [entry |-> <<>>, stored_at |-> 0]

AsideIdle ==
    /\ sheet = NoSheet /\ reasons = <<>> /\ conv = NoConv
    /\ call = NoCall /\ cache = NoCache

InitWith(Rows, ColSets, Years, maxRows) ==
    /\ \E n \in 0..maxRows : \E f \in [1..n -> Rows] : \E cols \in ColSets :
          raw = Frame(cols, f)
    /\ enriched = NoFrame
    /\ filters = DEFAULT_FILTERS
    /\ filtered = NoFrame
    /\ now = 0
    /\ CURRENT_YEAR \in Years
    /\ pc = "loaded"
    /\ alias = FALSE
    /\ given = NoFrame
    /\ AsideIdle

\* time passes; the clock is read by Enrich alone, so ticks are taken while a
\* run is still to read it
Tick ==
    /\ pc = "loaded"
    /\ now < MaxClock
    /\ now' = now + 1
    /\ UNCHANGED <<raw, enriched, filters, filtered, CURRENT_YEAR, pc, alias, given, aside>>

\* app.py line 99; given is the frame as it was handed to the call
Enrich ==
    /\ pc = "loaded"
    /\ \E res \in {EnrichCall(raw, now, CURRENT_YEAR)} :
          /\ given' = raw
          /\ raw' = res.input
          /\ enriched' = res.out
          /\ alias' = res.alias
          /\ pc' = IF res.out.err = "" THEN "enriched" ELSE "raised"
    /\ UNCHANGED <<filters, filtered, now, CURRENT_YEAR, aside>>

\* app.py lines 101-102 with the specification the sidebar produced
Filter(F) ==
    /\ pc = "enriched"
    /\ \E f \in F :
          LET res == apply_global_filters(enriched, f)
          IN /\ enriched' = res.input
             /\ filtered' = res.out
             /\ filters' = f
             /\ alias' = res.alias
             /\ pc' = IF res.out.err = "" THEN "filtered" ELSE "raised"
    /\ UNCHANGED <<raw, now, CURRENT_YEAR, given, aside>>

NextEnrich == Tick \/ Enrich

Done == pc \in {"enriched", "filtered"} /\ enriched.err = ""

\* the row of df with index label i
RowOf(df, i) == df.rows[CHOOSE j \in 1..Len(df.rows) : df.rows[j].id = i]

(***************************************************************************)
(* Sale price (C1).                                                        *)
(***************************************************************************)
T_For_Sale == <<"F", "o", "r", " ", "S", "a", "l", "e">>
T_for_rent == <<"f", "o", "r", " ", "r", "e", "n", "t">>
T_for_sale_padded == <<" ", "f", "o", "r", " ", "s", "a", "l", "e">>

SaleRows ==
    {[BaseRow EXCEPT !.listing_type = lt, !.sale_price_idr = sp, !.price_idr = p,
                     !.building_size_sqm = Num(2), !.scraped_at = Ts(0)] :
        lt \in {Null, Str(T_for_sale), Str(T_For_Sale), Str(T_for_rent),
                Str(T_for_sale_padded)},
        sp \in {Null, Num(0), Num(5)},
        p \in {Null, Num(3)}}

SaleColSets ==
    {SheetCols, SheetCols \ {"sale_price_idr"}, SheetCols \ {"price_idr"},
     SheetCols \ {"listing_type"}}

InitSale == InitWith(SaleRows, SaleColSets, {10}, MaxRows)
SpecSale == InitSale /\ [][NextEnrich]_vars

\* the claim's "listing_type lower-cased equals for sale", on the raw cell
IsSaleListing(r) == r.listing_type.k = "str" /\ Lower(r.listing_type.s) = T_for_sale

\* C1: in the output of enrich_listings price_sale_idr is non-null only on a
\* row whose listing_type lower-cased is "for sale", and on every such row it
\* is sale_price_idr when that is present, else price_idr, unchanged.
C1_SalePriceLaw ==
    Done =>
        \A i \in 1..Len(enriched.rows) :
            LET e == enriched.rows[i]
                r == raw.rows[i]
            IN /\ NotNa(e.price_sale_idr) => IsSaleListing(r)
               /\ IsSaleListing(r) =>
                    e.price_sale_idr =
                        IF NotNa(r.sale_price_idr) THEN r.sale_price_idr ELSE r.price_idr

C1_Witness ==
    /\ Done
    /\ \E i, j \in 1..Len(enriched.rows) :
          /\ IsSaleListing(raw.rows[i])
          /\ IsNull(raw.rows[i].sale_price_idr)
          /\ enriched.rows[i].price_sale_idr = Num(3)
          /\ ~IsSaleListing(raw.rows[j])
          /\ NotNa(raw.rows[j].price_idr)
          /\ IsNull(enriched.rows[j].price_sale_idr)

(***************************************************************************)
(* Rent normalisation (C2).                                                *)
(***************************************************************************)
T_daily == <<"d", "a", "i", "l", "y">>
T_Weekly_padded == <<" ", "W", "e", "e", "k", "l", "y", " ">>
T_MONTH == <<"M", "O", "N", "T", "H">>
T_tahun == <<"t", "a", "h", "u", "n">>
T_yearly == <<"y", "e", "a", "r", "l", "y">>
T_season == <<"s", "e", "a", "s", "o", "n">>

RentRows ==
    {[BaseRow EXCEPT !.listing_type = Str(T_for_rent), !.rent_price_month_idr = m,
                     !.price_idr = p, !.rent_period = rp,
                     !.rent_period_base = Str(T_yearly),
                     !.building_size_sqm = Num(2), !.scraped_at = Ts(0)] :
        m \in {Null, Num(7)},
        p \in {Null, Num(6)},
        rp \in {Null, Str(T_daily), Str(T_Weekly_padded), Str(T_MONTH), Str(T_tahun),
                Str(T_season)}}

RentColSets ==
    {SheetCols, SheetCols \cup {"rent_period_base"}, SheetCols \ {"price_idr"},
     SheetCols \ {"rent_period"}, SheetCols \ {"rent_price_month_idr"}}

InitRent == InitWith(RentRows, RentColSets, {10}, MaxRows)
SpecRent == InitRent /\ [][NextEnrich]_vars

\* the period text of a raw row, lower-cased and trimmed: of rent_period_base
\* when the frame has that column, else of rent_period; <<>> when there is none
PeriodText(df, r) ==
    LET c == IF "rent_period_base" \in df.cols THEN r.rent_period_base ELSE r.rent_period
    IN IF c.k = "str" THEN Strip(Lower(c.s)) ELSE <<>>

\* C2: a row without a direct monthly rent, with a known fallback price and a
\* period text (case-insensitive, trimmed) in an alias class has
\* rent_price_month_idr_norm = fallback*30 (daily), fallback*4.3 (weekly),
\* fallback (monthly), fallback/12 (yearly); a row with a direct monthly rent
\* keeps it whatever its period.
C2_RentNormalLaw ==
    Done =>
        \A i \in 1..Len(enriched.rows) :
            LET r == raw.rows[i]
                norm == enriched.rows[i].rent_price_month_idr_norm
                per == PeriodText(raw, r)
                fb == r.price_idr
            IN /\ NotNa(r.rent_price_month_idr) => norm = r.rent_price_month_idr
               /\ (IsNull(r.rent_price_month_idr) /\ NotNa(fb)) =>
                    /\ per \in daily_aliases => norm = Q(fb.n * 30, fb.d)
                    /\ per \in weekly_aliases => norm = Q(fb.n * 43, fb.d * 10)
                    /\ per \in monthly_aliases => norm = fb
                    /\ per \in yearly_aliases => norm = Q(fb.n, fb.d * 12)

C2_Witness ==
    /\ Done
    /\ "rent_period_base" \notin raw.cols
    /\ \E i, j \in 1..Len(enriched.rows) :
          /\ raw.rows[i].rent_period = Str(T_Weekly_padded)
          /\ IsNull(raw.rows[i].rent_price_month_idr)
          /\ enriched.rows[i].rent_price_month_idr_norm = Q(129, 5)
          /\ raw.rows[j].rent_period = Str(T_tahun)
          /\ raw.rows[j].rent_price_month_idr = Num(7)
          /\ raw.rows[j].price_idr = Num(6)
          /\ enriched.rows[j].rent_price_month_idr_norm = Num(7)

(***************************************************************************)
(* Lease years (C3, C4).                                                   *)
(***************************************************************************)
T_Leasehold == <<"L", "e", "a", "s", "e", "h", "o", "l", "d">>
T_Freehold == <<"F", "r", "e", "e", "h", "o", "l", "d">>
T_25_years == <<"2", "5", " ", "y", "e", "a", "r", "s">>
T_150 == <<"1", "5", "0">>
T_lease_30_yrs == <<"l", "e", "a", "s", "e", " ", "3", "0", " ", "Y", "r", "s">>

LeaseRows ==
    {[BaseRow EXCEPT !.listing_type = Str(T_for_sale), !.price_idr = Num(6),
                     !.ownership_type = o, !.lease_duration = ld,
                     !.lease_expiry_year = x, !.description = ds,
                     !.building_size_sqm = Num(2), !.scraped_at = Ts(0)] :
        o \in {Null, Str(T_Leasehold), Str(T_Freehold)},
        ld \in {Null, Num(0), Num(150), Str(T_25_years), Str(T_150)},
        x \in {Null, Num(10), Num(150)},
        ds \in {Null, Str(T_lease_30_yrs)}}

InitLease == InitWith(LeaseRows, {SheetCols}, {10, 11}, MaxLeaseRows)
SpecLease == InitLease /\ [][NextEnrich]_vars

IsLeasehold(r) == r.ownership_type.k = "str" /\ Lower(r.ownership_type.s) = T_leasehold

\* C3: lease_years_remaining of every enriched row is null, or the row is
\* leasehold (case-insensitive) and the value lies in [1, 99].
C3_LeaseClampLaw ==
    Done =>
        \A i \in 1..Len(enriched.rows) :
            LET y == enriched.rows[i].lease_years_remaining
            IN IsNull(y)
               \/ /\ IsLeasehold(raw.rows[i])
                  /\ IsNum(y) /\ y.d <= y.n /\ y.n <= 99 * y.d

C3_Witness ==
    /\ Done
    /\ \E i \in 1..Len(enriched.rows) :
          /\ IsLeasehold(raw.rows[i])
          /\ IsNull(raw.rows[i].lease_duration)
          /\ raw.rows[i].lease_expiry_year = Num(150)
          /\ enriched.rows[i].lease_years_remaining = Num(99)

\* the number a lease_duration text carries in front of a year-unit token,
\* -1 when it carries none
YearsInText(c) == IF c.k = "str" THEN LEASE_REGEX(c.s) ELSE -1

\* C4: a leasehold row whose lease_duration is text with a number followed by
\* a year-unit token gets lease_years_remaining equal to that number clamped to
\* [1, 99], whatever lease_expiry_year and description are.
C4_LeaseDurationText ==
    Done =>
        \A i \in 1..Len(enriched.rows) :
            (IsLeasehold(raw.rows[i]) /\ YearsInText(raw.rows[i].lease_duration) >= 0) =>
                enriched.rows[i].lease_years_remaining =
                    Clip(Num(YearsInText(raw.rows[i].lease_duration)), 1, 99)

(***************************************************************************)
(* Price per square metre (C5).                                            *)
(***************************************************************************)
SqmRows ==
    {[BaseRow EXCEPT !.listing_type = Str(T_for_sale), !.sale_price_idr = sp,
                     !.building_size_sqm = b, !.land_size_sqm = l,
                     !.scraped_at = Ts(0)] :
        sp \in {Null, Num(0), Num(12)},
        b \in {Null, Num(0), Num(4)},
        l \in {Null, Num(0), Num(3)}}

InitSqm == InitWith(SqmRows, {SheetCols, SheetCols \ {"land_size_sqm"}}, {10}, MaxRows)
SpecSqm == InitSqm /\ [][NextEnrich]_vars

Usable(size) == IsNum(size) /\ size.n # 0

\* sale price / size for a usable size, null for a null sale price
Ratio(sale, size) ==
    IF IsNum(sale) THEN Q(sale.n * size.d, sale.d * size.n) ELSE Null

\* the example of the specification: building 0, land 200, 400,000,000
SqmExampleRow ==
    [BaseRow EXCEPT !.building_size_sqm = Num(0), !.land_size_sqm = Num(200)]

\* C5: price_per_sqm_idr_calc is sale price / building size for a present,
\* non-zero building size; sale price / land size when building size is null
\* or 0; null when both sizes are null or 0; never infinite (building 0, land
\* 200, sale price 400,000,000 gives 2,000,000).
C5_PricePerSqm ==
    /\ price_per_sqm(SheetCols, SqmExampleRow, Num(400000000)) = Num(2000000)
    /\ Done =>
        \A i \in 1..Len(enriched.rows) :
            LET b == raw.rows[i].building_size_sqm
                l == raw.rows[i].land_size_sqm
                sale == enriched.rows[i].price_sale_idr
                v == enriched.rows[i].price_per_sqm_idr_calc
            IN /\ v.k # "inf"
               /\ Usable(b) => v = Ratio(sale, b)
               /\ (~Usable(b) /\ Usable(l)) => v = Ratio(sale, l)
               /\ (~Usable(b) /\ ~Usable(l)) => IsNull(v)

C5_Witness ==
    /\ Done
    /\ \E i, j \in 1..Len(enriched.rows) :
          /\ raw.rows[i].building_size_sqm = Num(0)
          /\ raw.rows[i].land_size_sqm = Num(3)
          /\ enriched.rows[i].price_sale_idr = Num(12)
          /\ enriched.rows[i].price_per_sqm_idr_calc = Num(4)
          /\ raw.rows[j].building_size_sqm = Num(4)
          /\ raw.rows[j].land_size_sqm = Num(0)
          /\ enriched.rows[j].price_per_sqm_idr_calc = Num(3)

(***************************************************************************)
(* Days listed (C6).                                                       *)
(***************************************************************************)
T_soon == <<"s", "o", "o", "n">>

DaysRows ==
    {[BaseRow EXCEPT !.listing_type = Str(T_for_sale), !.price_idr = Num(6),
                     !.building_size_sqm = Num(2),
                     !.listing_date = ld, !.scraped_at = sc] :
        ld \in {Null, Ts(0), Ts(3), Str(T_soon)},
        sc \in {Null, Ts(1), Ts(4)}}

DaysColSets ==
    {SheetCols, SheetCols \ {"listing_date"}, SheetCols \ {"scraped_at"},
     SheetCols \ {"listing_date", "scraped_at"}}

InitDays == InitWith(DaysRows, DaysColSets, {10}, MaxRows)
SpecDays == InitDays /\ [][NextEnrich]_vars

\* the effective listing date of a raw row: listing_date, else scraped_at
EffectiveDate(r) ==
    IF r.listing_date.k = "ts" THEN r.listing_date
    ELSE IF r.scraped_at.k = "ts" THEN r.scraped_at
    ELSE Null

\* C6: days_listed is null exactly when the effective listing date is null;
\* otherwise it is the whole-day difference between the reference date
\* (scraped_at when present, else the timestamp of the run) and the effective
\* listing date, and never negative.
C6_DaysListed ==
    Done =>
        \A i \in 1..Len(enriched.rows) :
            LET r == raw.rows[i]
                eff == EffectiveDate(r)
                ref == IF r.scraped_at.k = "ts" THEN r.scraped_at.n
                       ELSE enriched.attrs.diagnostics.computed_at
                days == enriched.rows[i].days_listed
            IN /\ IsNull(days) <=> IsNull(eff)
               /\ NotNa(eff) =>
                    /\ IsNum(days) /\ days.d = 1 /\ days.n >= 0
                    /\ ref >= eff.n =>
                          /\ days.n * TicksPerDay <= ref - eff.n
                          /\ ref - eff.n < (days.n + 1) * TicksPerDay
                    /\ ref < eff.n => days.n = 0

C6_Witness ==
    /\ Done
    /\ \E i, j \in 1..Len(enriched.rows) :
          /\ raw.rows[i].listing_date = Ts(3)
          /\ raw.rows[i].scraped_at = Ts(1)
          /\ enriched.rows[i].days_listed = Num(0)
          /\ raw.rows[j].listing_date = Ts(0)
          /\ IsNull(raw.rows[j].scraped_at)
          /\ enriched.attrs.diagnostics.computed_at = TicksPerDay
          /\ enriched.rows[j].days_listed = Num(1)

(***************************************************************************)
(* Outlier flags and the filter pipeline (C7 - C10).                       *)
(***************************************************************************)
T_monthly == <<"m", "o", "n", "t", "h", "l", "y">>
T_Villa == <<"V", "i", "l", "l", "a">>
T_Land == <<"L", "a", "n", "d">>
T_Ubud == <<"U", "b", "u", "d">>
T_Canggu == <<"C", "a", "n", "g", "g", "u">>
T_Ready == <<"R", "e", "a", "d", "y">>
T_Agent == <<"A", "g", "e", "n", "t">>

PipelineBase ==
    [BaseRow EXCEPT !.listing_type = Str(T_for_sale), !.rent_period = Str(T_monthly),
                    !.building_size_sqm = Num(2), !.land_size_sqm = Num(3),
                    !.property_type = Str(T_Villa), !.area = Str(T_Ubud),
                    !.property_status = Str(T_Ready), !.seller_type = Str(T_Agent),
                    !.ownership_type = Str(T_Freehold), !.scraped_at = Ts(2)]

\* the rows of the pipeline frames, in a fixed order
PipelineRows ==
    << [PipelineBase EXCEPT !.price_idr = Num(2), !.bedrooms = Num(1),
                            !.listing_date = Ts(0)],
       [PipelineBase EXCEPT !.price_idr = Num(4), !.bedrooms = Num(3),
                            !.ownership_type = Str(T_Leasehold),
                            !.lease_duration = Num(2), !.area = Str(T_Canggu)],
       [PipelineBase EXCEPT !.price_idr = Num(6), !.bedrooms = Num(5),
                            !.property_type = Str(T_Land), !.building_size_sqm = Num(0),
                            !.listing_date = Ts(1), !.seller_type = Null],
       [PipelineBase EXCEPT !.listing_type = Str(T_for_rent), !.price_idr = Num(4),
                            !.ownership_type = Str(T_Leasehold), !.scraped_at = Null,
                            !.property_status = Null],
       [PipelineBase EXCEPT !.sale_price_idr = Num(0), !.price_idr = Num(4),
                            !.bedrooms = Num(2), !.land_size_sqm = Num(8)] >>

\* one predicate of a filter specification: <<field, value>>
FilterOptions ==
    { <<"date_range", <<Ts(1), Null>> >>,
      <<"date_range", <<Ts(1), Ts(2)>> >>,
      <<"listing_type", Str(T_For_Sale)>>,
      <<"property_types", List({T_Villa})>>,
      <<"ownership", List({T_Freehold})>>,
      <<"seller_type", List({T_Agent})>>,
      <<"bedrooms_bucket", List({"1", "3-4"})>>,
      <<"bedrooms_bucket", List({"5+", "studio"})>>,
      <<"price_range", Range(Num(2), Num(4))>>,
      <<"price_range", Range(Null, Num(4))>>,
      <<"rent_range", Range(Num(4), Null)>>,
      <<"building_size_range", Range(Num(2), Num(2))>>,
      <<"hide_outliers", TRUE>> }

WithOption(f, o) == [f EXCEPT ![o[1]] = o[2]]

\* the specifications that set at most n predicates
RECURSIVE FiltersUpTo(_)
FiltersUpTo(n) ==
    IF n = 0 THEN {DEFAULT_FILTERS}
    ELSE FiltersUpTo(n - 1)
         \cup {WithOption(f, o) : f \in FiltersUpTo(n - 1), o \in FilterOptions}

PipelineFilters == FiltersUpTo(MaxPredicates)

\* frames of up to MaxOutlierRows rows of PipelineRows; enrichment and filters
\* work row by row and the percentiles ignore the order of the rows, so the
\* rows of a frame are taken in the order of PipelineRows
InitPipeline ==
    /\ \E n \in 0..MaxOutlierRows : \E g \in [1..n -> 1..Len(PipelineRows)] :
          /\ \A i \in 1..(n - 1) : g[i] <= g[i + 1]
          /\ raw = Frame(SheetCols, [i \in 1..n |-> PipelineRows[g[i]]])
    /\ enriched = NoFrame
    /\ filters = DEFAULT_FILTERS
    /\ filtered = NoFrame
    /\ now = 0
    /\ CURRENT_YEAR = 10
    /\ pc = "loaded"
    /\ alias = FALSE
    /\ given = NoFrame
    /\ AsideIdle

NextPipeline == Tick \/ Enrich \/ Filter(PipelineFilters)
SpecPipeline == InitPipeline /\ [][NextPipeline]_vars

\* the claim's percentiles: of the non-null values of a field of the enriched
\* dataset, linearly interpolated
P1(c) == Quantile(SortedNonNull(enriched.rows, c), 1)
P99(c) == Quantile(SortedNonNull(enriched.rows, c), 99)
SomeValue(c) == \E i \in 1..Len(enriched.rows) : NotNa(enriched.rows[i][c])

\* C7: is_outlier_<field> of a row is true exactly when the row's value is
\* non-null and strictly below the 1st or strictly above the 99th percentile of
\* the field's non-null values; false for every row when there is none.
C7_OutlierFlags ==
    (pc = "enriched") =>
        \A i \in 1..Len(enriched.rows) : \A c \in OutlierColumnSet :
            LET e == enriched.rows[i]
            IN e.is_outlier[c] <=>
                  /\ SomeValue(c)
                  /\ NotNa(e[c])
                  /\ (FLt(e[c], P1(c)) \/ FGt(e[c], P99(c)))

C7_Witness ==
    /\ pc = "enriched"
    /\ Len(enriched.rows) = 3
    /\ enriched.rows[1].price_sale_idr = Num(2)
    /\ enriched.rows[1].is_outlier["price_sale_idr"]
    /\ enriched.rows[2].price_sale_idr = Num(4)
    /\ ~enriched.rows[2].is_outlier["price_sale_idr"]
    /\ enriched.rows[3].is_outlier["price_sale_idr"]
    /\ IsNull(enriched.rows[1].price_per_sqm_per_year)
    /\ ~enriched.rows[1].is_outlier["price_per_sqm_per_year"]

Filtered == pc = "filtered" /\ filtered.err = ""

Ids(df) == {df.rows[i].id : i \in 1..Len(df.rows)}

AnyFlag(e) == \E c \in OutlierColumnSet : e.is_outlier[c]

\* the enriched frame with every outlier flag lowered
Unflagged(df) ==
    [df EXCEPT !.rows =
        [i \in 1..Len(df.rows) |->
            [df.rows[i] EXCEPT !.is_outlier = [c \in OutlierColumnSet |-> FALSE],
                               !.is_outlier_any = FALSE]]]

\* C8: after enrich_listings and apply_global_filters with hide_outliers on,
\* no retained row is flagged on any monitored field (is_outlier_any being true
\* exactly when some per-field flag is); with hide_outliers off the retained
\* rows are those retained were no row flagged.
C8_HideOutliers ==
    Filtered =>
        /\ \A i \in 1..Len(enriched.rows) :
              enriched.rows[i].is_outlier_any <=> AnyFlag(enriched.rows[i])
        /\ filters.hide_outliers =>
              \A j \in 1..Len(filtered.rows) :
                  /\ ~AnyFlag(filtered.rows[j])
                  /\ ~AnyFlag(RowOf(enriched, filtered.rows[j].id))
        /\ ~filters.hide_outliers =>
              Ids(filtered) = Ids(apply_global_filters(Unflagged(enriched), filters).out)

C8_Witness ==
    /\ Filtered
    /\ filters.hide_outliers
    /\ filters.listing_type = Str(T_For_Sale)
    /\ Len(enriched.rows) = 3
    /\ Len(filtered.rows) = 2
    /\ \E i \in 1..3 : AnyFlag(enriched.rows[i]) /\ IsSaleListing(enriched.rows[i])

\* C9: every row apply_global_filters retains carries the is_outlier_<field>
\* and is_outlier_any values it has in the enriched dataset, the thresholds of
\* the enriched dataset are the percentiles over all its rows, and applying a
\* filter specification leaves the enriched dataset (rows, flags and
\* thresholds) as it was.
C9_FlagsStable ==
    /\ [](Filtered =>
            /\ \A j \in 1..Len(filtered.rows) :
                  LET e == RowOf(enriched, filtered.rows[j].id)
                  IN /\ filtered.rows[j].id \in Ids(enriched)
                     /\ filtered.rows[j].is_outlier = e.is_outlier
                     /\ filtered.rows[j].is_outlier_any = e.is_outlier_any
            /\ \A c \in DOMAIN enriched.attrs.outlier_thresholds :
                  enriched.attrs.outlier_thresholds[c] =
                      [lower |-> P1(c), upper |-> P99(c)])
    /\ [][pc = "enriched" => enriched' = enriched]_vars

C9_Witness ==
    /\ Filtered
    /\ ~filters.hide_outliers
    /\ NotNa(filters.date_range[1])
    /\ Len(enriched.rows) = 3
    /\ Len(filtered.rows) = 1
    /\ filtered.rows[1].is_outlier["price_sale_idr"]

\* the specifications that are filters with one predicate, or one bound of a
\* date range or of a range, taken away
Loosenings(f) ==
    {[f EXCEPT !.date_range = <<Null, f.date_range[2]>>] : x \in {1} \cap
        {IF NotNa(f.date_range[1]) THEN 1 ELSE 0}}
    \cup {[f EXCEPT !.date_range = <<f.date_range[1], Null>>] : x \in {1} \cap
        {IF NotNa(f.date_range[2]) THEN 1 ELSE 0}}
    \cup {[f EXCEPT !.listing_type = Null] : x \in {1} \cap
        {IF NotNa(f.listing_type) THEN 1 ELSE 0}}
    \cup {[f EXCEPT ![c] = NoList] :
            c \in {x \in {"property_types", "areas", "ownership", "property_status",
                          "seller_type", "bedrooms_bucket"} : ~f[x].none}}
    \cup {[f EXCEPT ![c] = NoRange] :
            c \in {x \in {"price_range", "rent_range", "building_size_range",
                          "land_size_range"} : ~f[x].none}}
    \cup {[f EXCEPT ![c] = Range(Null, f[c].hi)] :
            c \in {x \in {"price_range", "rent_range", "building_size_range",
                          "land_size_range"} : ~f[x].none /\ NotNa(f[x].lo)}}
    \cup {[f EXCEPT ![c] = Range(f[c].lo, Null)] :
            c \in {x \in {"price_range", "rent_range", "building_size_range",
                          "land_size_range"} : ~f[x].none /\ NotNa(f[x].hi)}}
    \cup {[f EXCEPT !.hide_outliers = FALSE] : x \in {1} \cap
        {IF f.hide_outliers THEN 1 ELSE 0}}

\* C10: a specification never retains more rows than the same specification
\* without one of its predicates, and every row it retains is a row the
\* looser specification retains.
C10_FilterMonotone ==
    Filtered =>
        \A g \in Loosenings(filters) :
            LET loose == apply_global_filters(enriched, g).out
            IN /\ Len(filtered.rows) <= Len(loose.rows)
               /\ \A j \in 1..Len(filtered.rows) :
                     \E m \in 1..Len(loose.rows) : loose.rows[m] = filtered.rows[j]

C10_Witness ==
    /\ Filtered
    /\ filters.hide_outliers
    /\ ~filters.price_range.none
    /\ Len(enriched.rows) = 3
    /\ Len(filtered.rows) = 1
    /\ \E g \in Loosenings(filters) :
          Len(apply_global_filters(enriched, g).out.rows) = 2

(***************************************************************************)
(* The predicates of apply_global_filters one by one (C11 - C14, C17):     *)
(* frames with and without the columns the predicates read, and filter     *)
(* specifications that set one predicate, alone or next to another.        *)
(***************************************************************************)
FilterRows ==
    { [PipelineBase EXCEPT !.ownership_type = Str(T_Leasehold), !.price_idr = Num(2),
                           !.lease_duration = Num(2), !.bedrooms = Num(1),
                           !.listing_date = Ts(1)],
      [PipelineBase EXCEPT !.listing_type = Str(T_for_rent),
                           !.ownership_type = Str(T_Leasehold), !.price_idr = Num(4),
                           !.building_size_sqm = Num(4), !.land_size_sqm = Null,
                           !.property_status = Null],
      [PipelineBase EXCEPT !.price_idr = Num(4), !.bedrooms = Num(3),
                           !.building_size_sqm = Null, !.land_size_sqm = Num(4),
                           !.property_type = Str(T_Land), !.area = Str(T_Canggu),
                           !.listing_date = Ts(0), !.source_category = Str(T_Agent),
                           !.seller_type = Null] }

FilterColSets ==
    {SheetCols, SheetCols \ {"listing_type"}, SheetCols \ {"price_idr"},
     SheetCols \ {"ownership_type"}, SheetCols \ {"listing_date", "scraped_at"},
     SheetCols \ {"building_size_sqm"}, SheetCols \ {"rent_period"},
     (SheetCols \ {"seller_type"}) \cup {"source_category"}}

\* the set-membership fields of a specification
ListFields ==
    {"property_types", "areas", "ownership", "property_status", "seller_type",
     "bedrooms_bucket"}

\* the predicates under study, one option each
FirstOptions ==
    { <<"date_range", <<Ts(1), Ts(2)>> >>, <<"date_range", <<Ts(1), Null>> >>,
      <<"date_range", <<Null, Ts(1)>> >>,
      <<"price_range", Range(Num(2), Num(4))>>, <<"price_range", Range(Num(4), Null)>>,
      <<"price_range", Range(Null, Num(2))>>,
      <<"rent_range", Range(Num(4), Num(4))>>, <<"rent_range", Range(Null, Num(4))>>,
      <<"building_size_range", Range(Num(2), Num(2))>>,
      <<"building_size_range", Range(Num(4), Null)>>,
      <<"land_size_range", Range(Num(3), Num(4))>>,
      <<"land_size_range", Range(Null, Num(3))>>,
      <<"land_size_range", Range(Null, Null)>>,
      <<"ownership", List({T_Freehold})>>, <<"ownership", List({T_Leasehold})>>,
      <<"bedrooms_bucket", List({"studio"})>> }
    \cup {<<fld, List({})>> : fld \in ListFields}

\* a predicate set next to the one under study
SecondOptions ==
    { <<"listing_type", Str(T_For_Sale)>>, <<"property_types", List({T_Villa})>>,
      <<"seller_type", List({T_Agent})>>, <<"bedrooms_bucket", List({"1", "5+"})>>,
      <<"hide_outliers", TRUE>> }

ContractFilters ==
    {DEFAULT_FILTERS}
    \cup {WithOption(DEFAULT_FILTERS, o) : o \in FirstOptions \cup SecondOptions}
    \cup {WithOption(WithOption(DEFAULT_FILTERS, o2), o) :
            o \in FirstOptions, o2 \in SecondOptions}

InitFilters == InitWith(FilterRows, FilterColSets, {10}, MaxRows)
NextFilters == Enrich \/ Filter(ContractFilters)
SpecFilters == InitFilters /\ [][NextFilters]_vars

\* the ids of the rows of the enriched dataset a specification retains
Retained(f) == Ids(FilteredFrame(enriched, f))

IsForSale(r) == r.listing_type.k = "str" /\ Lower(r.listing_type.s) = T_for_sale
OwnershipSelected(r, f) ==
    r.ownership_type.k = "str" /\ r.ownership_type.s \in f.ownership.items

\* C11: with a non-empty ownership selection and an ownership_type column,
\* the ownership predicate removes, from the rows the rest of the
\* specification retains, exactly the "for sale" rows whose ownership_type is
\* not selected when the dataset has a listing_type column (so every other
\* row, "for rent" rows included, stays whatever its ownership), and exactly
\* the rows whose ownership_type is not selected when it has none.
C11_OwnershipExemption ==
    (Filtered /\ filters.ownership.items # {} /\ "ownership_type" \in enriched.cols) =>
        LET rest == Retained([filters EXCEPT !.ownership = NoList])
            removed ==
                {i \in rest :
                    LET r == RowOf(enriched, i)
                    IN /\ ~OwnershipSelected(r, filters)
                       /\ ("listing_type" \in enriched.cols => IsForSale(r))}
        IN Ids(filtered) = rest \ removed

\* a Freehold-only filter over one sale/Leasehold and one rent/Leasehold row
\* drops the sale row and keeps the rent row
C11_Witness ==
    /\ Filtered
    /\ filters = WithOption(DEFAULT_FILTERS, <<"ownership", List({T_Freehold})>>)
    /\ Len(enriched.rows) = 2
    /\ "listing_type" \in enriched.cols
    /\ IsForSale(enriched.rows[1]) /\ enriched.rows[1].ownership_type = Str(T_Leasehold)
    /\ ~IsForSale(enriched.rows[2]) /\ enriched.rows[2].ownership_type = Str(T_Leasehold)
    /\ Len(filtered.rows) = 1
    /\ filtered.rows[1].id = enriched.rows[2].id

\* a <= b on two non-null values of one kind (numbers as exact fractions,
\* timestamps as ticks)
Leq(a, b) ==
    /\ a.k = b.k /\ a.k \in {"num", "ts"}
    /\ IF a.k = "num" THEN a.n * b.d <= b.n * a.d ELSE a.n <= b.n

\* lo <= v <= hi, both ends included, an absent end open
Within(lo, hi, v) ==
    /\ (lo = Null \/ Leq(lo, v))
    /\ (hi = Null \/ Leq(v, hi))

\* the value a range predicate reads in a row of the enriched dataset
RangeFields ==
    {"date_range", "price_range", "rent_range", "building_size_range", "land_size_range"}

RangeValue(fld, r) ==
    CASE fld = "date_range" -> r.listing_date_effective
      [] fld = "price_range" ->
            IF r.price_sale_idr # Null THEN r.price_sale_idr ELSE r.price_idr
      [] fld = "rent_range" -> r.rent_price_month_idr_norm
      [] fld = "building_size_range" -> r.building_size_sqm
      [] fld = "land_size_range" -> r.land_size_sqm

RangeUnset(fld) == IF fld = "date_range" THEN <<Null, Null>> ELSE NoRange
RangeLo(fld, f) == IF fld = "date_range" THEN f.date_range[1] ELSE f[fld].lo
RangeHi(fld, f) == IF fld = "date_range" THEN f.date_range[2] ELSE f[fld].hi

\* C12: of the rows the rest of the specification retains, a range predicate
\* (date, sale price, rent, building size, land size) retains exactly those
\* whose value v has lo <= v <= hi, a row with v = lo or v = hi included, and
\* an absent bound leaves its side open, also when the other bound is set.
C12_RangesInclusive ==
    Filtered =>
        \A fld \in RangeFields :
            LET rest == Retained([filters EXCEPT ![fld] = RangeUnset(fld)])
            IN Ids(filtered) =
                  {i \in rest : Within(RangeLo(fld, filters), RangeHi(fld, filters),
                                       RangeValue(fld, RowOf(enriched, i)))}

\* a land size range 3..4 retains a row of land size 3 and a row of land
\* size 4; a price range with only a lower bound 4 retains a row of price 4
C12_Witness ==
    /\ Filtered
    /\ Len(enriched.rows) = 2
    /\ \/ /\ filters.land_size_range = Range(Num(3), Num(4))
          /\ enriched.rows[1].land_size_sqm = Num(3)
          /\ enriched.rows[2].land_size_sqm = Num(4)
          /\ Len(filtered.rows) = 2
       \/ /\ filters.price_range = Range(Num(4), Null)
          /\ filters.listing_type = Null
          /\ enriched.rows[1].price_sale_idr = Num(2)
          /\ enriched.rows[2].price_sale_idr = Num(4)
          /\ Ids(filtered) = {enriched.rows[2].id}

\* C13: a set-membership field (property types, areas, ownership, property
\* status, seller type, bedrooms buckets) holding an empty list retains the
\* rows the specification retains with that field absent (None); when
\* nothing else is set that is every row of the dataset.
C13_EmptySelectionMatchesAll ==
    Filtered =>
        \A fld \in ListFields :
            filters[fld] = List({}) =>
                /\ Ids(filtered) = Retained([filters EXCEPT ![fld] = NoList])
                /\ filters = WithOption(DEFAULT_FILTERS, <<fld, List({})>>)
                      => Ids(filtered) = Ids(enriched)

\* an empty ownership list, alone, over a dataset of two rows retains both
C13_Witness ==
    /\ Filtered
    /\ filters = WithOption(DEFAULT_FILTERS, <<"ownership", List({})>>)
    /\ "ownership_type" \in enriched.cols
    /\ Len(enriched.rows) = 2
    /\ Len(filtered.rows) = 2

\* C14: after apply_global_filters the enriched dataset passed to it is what
\* enrich_listings produced (rows, cells, columns), it has neither the column
\* price_per_sqm_per_year_freehold_assumed nor an applied_filters record, and
\* the dataset returned is another object than the one passed in.
C14_InputUntouched ==
    Filtered =>
        /\ enriched = enrich_listings(raw, now, CURRENT_YEAR)
        /\ "price_per_sqm_per_year_freehold_assumed" \notin enriched.cols
        /\ enriched.attrs.applied_filters = {}
        /\ ~alias

\* C17: whatever source columns the dataset lacks, neither enrich_listings
\* nor apply_global_filters raises, and in the enriched dataset a derived
\* field that depends on a missing column is null: annual_rent_per_sqm and
\* yield_pct_proxy without building_size_sqm, listing_date_effective and
\* days_listed without both date columns.
C17_ColumnAbsenceAbsorbed ==
    /\ pc # "raised"
    /\ (Done /\ raw.rows # <<>>) =>
          \A i \in 1..Len(enriched.rows) :
             LET e == enriched.rows[i]
             IN /\ "building_size_sqm" \notin raw.cols =>
                      e.annual_rent_per_sqm = Null /\ e.yield_pct_proxy = Null
                /\ {"listing_date", "scraped_at"} \cap raw.cols = {} =>
                      e.listing_date_effective = Null /\ e.days_listed = Null

(***************************************************************************)
(* Determinism of enrichment (C18).                                        *)
(***************************************************************************)
\* C18: the dataset enrich_listings returned is the dataset it returns for
\* the same input at any other moment: any reading t of the clock and any
\* calendar year y give the same rows (lease_years_remaining and days_listed
\* included) and the same diagnostics.
C18_EnrichmentIsPure ==
    Done =>
        \A t \in 0..MaxClock : \A y \in {CURRENT_YEAR, CURRENT_YEAR + 1} :
            enrich_listings(raw, t, y) = enriched

(***************************************************************************)
(* loader.py: sentinel normalisation and the parse of scraped_at.          *)
(* A sheet frame is [cols, obj, rows, attrs]: obj are the columns of dtype *)
(* object (those that hold text), attrs.sentinel_replacements maps a       *)
(* column to its count.  A timestamp is Ts(n), n the seconds since 2000 in *)
(* a calendar of 12 months of 31 days (an order-preserving reading of the  *)
(* fields).  EmDash stands for the one character U+2014.                   *)
(***************************************************************************)
EmDash == "U+2014"

SENTINELS ==
    { <<>>, <<"N", "o", "n", "e">>, <<"n", "o", "n", "e">>, <<"N", "/", "A">>, <<"n", "/", "a">>, <<"N", "A">>, <<"n", "a">>, <<"n", "u", "l", "l">>, <<"N", "u", "l", "l">>, <<"-">>, <<EmDash>> }

SCRAPED_AT_PATTERNS ==
    << <<"%Y", "-", "%m", "-", "%d", " ", "%H", ":", "%M", ":", "%S">>,
       <<"%Y", "-", "%m", "-", "%d", " ", "%H", ":", "%M">>,
       <<"%d", "-", "%m", "-", "%Y", " ", "%H", ":", "%M", ":", "%S">>,
       <<"%d", "/", "%m", "/", "%Y", " ", "%H", ":", "%M", ":", "%S">> >>

Directives == {"%Y", "%m", "%d", "%H", "%M", "%S"}

\* the fields strptime starts from
FieldDefaults ==
    [x \in Directives |-> IF x = "%Y" THEN 1900 ELSE IF x \in {"%m", "%d"} THEN 1 ELSE 0]

FieldOk(x, v) ==
    CASE x = "%Y" -> TRUE
      [] x = "%m" -> v \in 1..12
      [] x = "%d" -> v \in 1..31
      [] x = "%H" -> v \in 0..23
      [] x \in {"%M", "%S"} -> v \in 0..59

\* the fields of s[i..] read under fmt[j..]: <<fields>>, or <<>> when the
\* text does not match the whole format; a two-digit field is tried before
\* a one-digit field, as the alternation of the directive's pattern does
RECURSIVE Strptime(_, _, _, _, _)
Strptime(s, i, fmt, j, acc) ==
    IF j > Len(fmt) THEN (IF i = Len(s) + 1 THEN <<acc>> ELSE <<>>)
    ELSE IF fmt[j] \in Directives
    THEN LET read(w) ==
                 IF i + w - 1 <= Len(s) /\ AllDigits(SubSeq(s, i, i + w - 1))
                 THEN LET v == DigitsVal(SubSeq(s, i, i + w - 1))
                      IN IF FieldOk(fmt[j], v)
                         THEN Strptime(s, i + w, fmt, j + 1, [acc EXCEPT ![fmt[j]] = v])
                         ELSE <<>>
                 ELSE <<>>
             two == read(2)
         IN IF fmt[j] = "%Y" THEN read(4)
            ELSE IF two # <<>> THEN two ELSE read(1)
    ELSE IF i <= Len(s) /\ s[i] = fmt[j]
         THEN Strptime(s, i + 1, fmt, j + 1, acc)
         ELSE <<>>

IsLeap(y) == (y % 4 = 0 /\ y % 100 # 0) \/ y % 400 = 0

DaysIn(y, m) ==
    IF m = 2 THEN (IF IsLeap(y) THEN 29 ELSE 28)
    ELSE IF m \in {4, 6, 9, 11} THEN 30 ELSE 31

Stamp(a) ==
    Ts((((((a["%Y"] - 2000) * 12 + (a["%m"] - 1)) * 31 + (a["%d"] - 1)) * 24
          + a["%H"]) * 60 + a["%M"]) * 60 + a["%S"])

\* pd.to_datetime(value, format=fmt, errors="coerce") on one cell
to_datetime_format(c, fmt) ==
    IF c.k # "str" THEN Null
    ELSE LET r == Strptime(c.s, 1, fmt, 1, FieldDefaults)
         IN IF r = <<>> \/ r[1]["%d"] > DaysIn(r[1]["%Y"], r[1]["%m"]) THEN Null
            ELSE Stamp(r[1])

\* the first format of fmts that reads the cell
RECURSIVE FirstFormat(_, _, _)
FirstFormat(c, fmts, k) ==
    IF k > Len(fmts) THEN Null
    ELSE LET v == to_datetime_format(c, fmts[k])
         IN IF v # Null THEN v ELSE FirstFormat(c, fmts, k + 1)

\* the formats the format-free parse reads: ISO-like texts always; day and
\* month first texts (month first when that is a date) only when the parse
\* is lenient, which depends on the pandas release and on the first value of
\* the column
IsoFormats ==
    << SCRAPED_AT_PATTERNS[1], SCRAPED_AT_PATTERNS[2], <<"%Y", "-", "%m", "-", "%d">> >>

LenientFormats ==
    << <<"%m", "/", "%d", "/", "%Y", " ", "%H", ":", "%M", ":", "%S">>,
       <<"%m", "-", "%d", "-", "%Y", " ", "%H", ":", "%M", ":", "%S">>,
       SCRAPED_AT_PATTERNS[4], SCRAPED_AT_PATTERNS[3] >>

\* pd.to_datetime(value, errors="coerce", utc=True) on one cell
to_datetime(c, lenient) ==
    FirstFormat(c, IF lenient THEN IsoFormats \o LenientFormats ELSE IsoFormats, 1)

\* line 38: isinstance(v, str) and v.strip() in SENTINELS
IsSentinel(c) == c.k = "str" /\ Strip(c.s) \in SENTINELS

SentinelCount(df, col) ==
    Cardinality({i \in 1..Len(df.rows) : IsSentinel(df.rows[i][col])})

\* mutant: the counts of this pass replace the record, also when there are none
_normalize_sentinels_overwrite(df) ==
    LET scanned == df.cols \cap df.obj
        replacements ==
            [col \in {c \in scanned : SentinelCount(df, c) > 0} |-> SentinelCount(df, col)]
    IN [df EXCEPT
          !.rows = [i \in 1..Len(df.rows) |->
                      [col \in DOMAIN df.rows[i] |->
                          IF col \in scanned /\ IsSentinel(df.rows[i][col])
                          THEN Null ELSE df.rows[i][col]]],
          !.attrs.sentinel_replacements = replacements]

_normalize_sentinels(df) ==
    LET scanned == df.cols \cap df.obj
        replacements ==
            [col \in {c \in scanned : SentinelCount(df, c) > 0} |-> SentinelCount(df, col)]
        existing == df.attrs.sentinel_replacements
    IN [df EXCEPT
          !.rows = [i \in 1..Len(df.rows) |->
                      [col \in DOMAIN df.rows[i] |->
                          IF col \in scanned /\ IsSentinel(df.rows[i][col])
                          THEN Null ELSE df.rows[i][col]]],
          !.attrs.sentinel_replacements =
              IF DOMAIN replacements # {} THEN replacements @@ existing ELSE existing]

\* remaining_mask = parsed.isna() & raw.notna(), for one row
Remaining(val, parsed) == parsed = Null /\ val # Null

\* lines 57-66 for one row: the explicit patterns, in order, while the row
\* remains (rows do not affect each other; the loop ends early once no row
\* remains)
RECURSIVE PatternAttempts(_, _, _, _)
PatternAttempts(val, parsed, patterns, k) ==
    IF k > Len(patterns) \/ ~Remaining(val, parsed) THEN parsed
    ELSE LET attempt == to_datetime_format(val, patterns[k])
         IN PatternAttempts(val, IF attempt # Null THEN attempt ELSE parsed,
                            patterns, k + 1)

\* lines 70-76; "None" is the reason of a row that has none
FailureReason(val) ==
    IF val.k = "str" /\ Strip(val.s) \in SENTINELS THEN "sentinel"
    ELSE IF val.k = "str" /\ Strip(val.s) = <<>> THEN "blank"
    ELSE "unparsed_format"

\* one row of _multi_parse_datetime: <<parsed, reason>>
ParseRow(val, patterns, lenient) ==
    LET parsed == PatternAttempts(val, to_datetime(val, lenient), patterns, 1)
    IN <<parsed, IF Remaining(val, parsed) THEN FailureReason(val) ELSE "None">>

_multi_parse_datetime(series, patterns, lenient) ==
    LET rows == [i \in 1..Len(series) |-> ParseRow(series[i], patterns, lenient)]
    IN [parsed |-> [i \in 1..Len(series) |-> rows[i][1]],
        reasons |-> [i \in 1..Len(series) |-> rows[i][2]]]

\* _load_data_impl, lines 272-311, on the frame the worksheets gave
SourceCols == {"scraped_at", "area", "price_idr"}
ParseCols == {"scraped_at_raw", "scraped_at_parse_ok", "scraped_at_parse_fail_reason"}

Column(df, col) == [i \in 1..Len(df.rows) |-> df.rows[i][col]]

\* line 272
Normalize ==
    /\ pc = "fetched"
    /\ sheet.rows # <<>>
    /\ sheet' = _normalize_sentinels(sheet)
    /\ pc' = "normalized"
    /\ UNCHANGED <<raw, enriched, filters, filtered, now, CURRENT_YEAR, alias, given, reasons, conv, call, cache>>

\* lines 269-270: an empty frame is returned at once
ReturnEmpty ==
    /\ pc = "fetched"
    /\ sheet.rows = <<>>
    /\ pc' = "returned"
    /\ UNCHANGED <<raw, enriched, filters, filtered, now, CURRENT_YEAR, alias, given, sheet, reasons, conv, call, cache>>

\* lines 274-279
ParseScrapedAt ==
    /\ pc = "normalized"
    /\ IF "scraped_at" \in sheet.cols
       THEN \E lenient \in BOOLEAN :
            \E res \in {_multi_parse_datetime(Column(sheet, "scraped_at"),
                                              SCRAPED_AT_PATTERNS, lenient)} :
               /\ sheet' =
                     [sheet EXCEPT
                        !.cols = @ \cup ParseCols,
                        !.obj = (@ \ {"scraped_at"}) \cup {"scraped_at_raw"},
                        !.rows = [i \in 1..Len(sheet.rows) |->
                                    [sheet.rows[i] EXCEPT
                                       !.scraped_at_raw = sheet.rows[i].scraped_at,
                                       !.scraped_at = res.parsed[i],
                                       !.scraped_at_parse_ok = (res.parsed[i] # Null),
                                       !.scraped_at_parse_fail_reason = res.reasons[i]]]]
               /\ reasons' = res.reasons
       ELSE UNCHANGED <<sheet, reasons>>
    /\ pc' = "parsed"
    /\ UNCHANGED <<raw, enriched, filters, filtered, now, CURRENT_YEAR, alias, given, conv, call, cache>>

\* lines 285-311: numeric coercion, diagnostics, return
FinishLoad ==
    /\ pc = "parsed"
    /\ LET coerced ==
              [i \in 1..Len(sheet.rows) |->
                  IF "price_idr" \in sheet.cols
                  THEN [sheet.rows[i] EXCEPT !.price_idr = _to_numeric(@)]
                  ELSE sheet.rows[i]]
       IN sheet' =
            [sheet EXCEPT
               !.rows = coerced,
               !.obj = @ \ {"price_idr"},
               !.attrs.diagnostics =
                   [dataframe_row_count |-> Len(sheet.rows),
                    sentinel_replacements |-> sheet.attrs.sentinel_replacements,
                    scraped_at_non_null |->
                        IF "scraped_at" \in sheet.cols
                        THEN Cardinality({i \in 1..Len(sheet.rows) :
                                            sheet.rows[i].scraped_at # Null})
                        ELSE -1]]
    /\ pc' = "returned"
    /\ UNCHANGED <<raw, enriched, filters, filtered, now, CURRENT_YEAR, alias, given, reasons, conv, call, cache>>

(***************************************************************************)
(* Loading a sheet (C15, C16).                                             *)
(***************************************************************************)
T_iso == <<"2", "0", "2", "4", "-", "0", "1", "-", "0", "2", " ", "0", "3", ":", "0", "4", ":", "0", "5">>
T_iso_minute == <<"2", "0", "2", "4", "-", "0", "1", "-", "0", "2", " ", "0", "3", ":", "0", "4">>
T_day_first == <<"2", "5", "/", "0", "1", "/", "2", "0", "2", "4", " ", "0", "3", ":", "0", "4", ":", "0", "5">>
T_dashed == <<"0", "2", "-", "0", "1", "-", "2", "0", "2", "4", " ", "0", "3", ":", "0", "4", ":", "0", "5">>
T_feb_30 == <<"2", "0", "2", "4", "-", "0", "2", "-", "3", "0", " ", "0", "3", ":", "0", "4", ":", "0", "5">>
T_NA == <<"N", "/", "A">>
T_na_padded == <<" ", "n", "/", "a", " ">>
T_none == <<"n", "o", "n", "e">>

SourceBase ==
    [scraped_at |-> Str(T_iso), area |-> Str(T_Ubud), price_idr |-> Num(2),
     scraped_at_raw |-> Null, scraped_at_parse_ok |-> FALSE,
     scraped_at_parse_fail_reason |-> "None"]

SourceRows ==
    { SourceBase,
      [SourceBase EXCEPT !.scraped_at = Str(<<>>), !.area = Str(T_NA)],
      [SourceBase EXCEPT !.scraped_at = Str(<<" ">>), !.price_idr = Str(<<"-">>)],
      [SourceBase EXCEPT !.scraped_at = Str(T_soon), !.area = Str(T_na_padded)],
      [SourceBase EXCEPT !.scraped_at = Str(T_day_first)],
      [SourceBase EXCEPT !.scraped_at = Str(T_dashed), !.area = Null],
      [SourceBase EXCEPT !.scraped_at = Str(T_iso_minute), !.area = Str(<<EmDash>>)],
      [SourceBase EXCEPT !.scraped_at = Null, !.area = Str(T_none)],
      [SourceBase EXCEPT !.scraped_at = Str(T_feb_30), !.price_idr = Num(4)] }

SourceColSets == {SourceCols, SourceCols \ {"scraped_at"}, {"scraped_at"}}

\* pd.concat of the worksheets' records: a column absent from the frame has
\* no cells, a column with a text cell has dtype object
SourceFrame(cols, f) ==
    LET rows == [i \in DOMAIN f |->
                   [c \in DOMAIN SourceBase |->
                      IF c \in cols \/ c \notin SourceCols THEN f[i][c] ELSE Null]]
    IN [cols |-> cols,
        obj |-> {c \in cols : \E i \in DOMAIN f : rows[i][c].k = "str"},
        rows |-> rows,
        attrs |-> NoSheetAttrs,
        source |-> rows]

PipelineIdle ==
    /\ raw = NoFrame /\ enriched = NoFrame /\ filters = DEFAULT_FILTERS
    /\ filtered = NoFrame /\ now = 0 /\ CURRENT_YEAR = 10 /\ alias = FALSE
    /\ given = NoFrame /\ call = NoCall /\ cache = NoCache

InitLoad ==
    /\ \E n \in 0..MaxRows : \E f \in [1..n -> SourceRows] : \E cols \in SourceColSets :
          sheet = SourceFrame(cols, f)
    /\ reasons = <<>>
    /\ conv = NoConv
    /\ pc = "fetched"
    /\ PipelineIdle

NextLoad == Normalize \/ ReturnEmpty \/ ParseScrapedAt \/ FinishLoad
SpecLoad == InitLoad /\ [][NextLoad]_vars

\* C15: the dataset _normalize_sentinels produced is a fixed point of it: a
\* second run changes no cell and no per-column replacement count.
C15_NormalizeIdempotent ==
    pc = "normalized" =>
        LET again == _normalize_sentinels(sheet)
        IN /\ again.rows = sheet.rows
           /\ again.attrs.sentinel_replacements = sheet.attrs.sentinel_replacements

\* a first run that replaced cells in two columns, and recorded their counts
C15_Witness ==
    /\ pc = "normalized"
    /\ sheet.rows # sheet.source
    /\ \E c1, c2 \in sheet.cols :
          /\ c1 # c2
          /\ {c1, c2} \subseteq DOMAIN sheet.attrs.sentinel_replacements
          /\ sheet.attrs.sentinel_replacements[c1] = 2

\* C16: once the sheet is loaded, a row whose scraped_at came from the
\* worksheet as the empty string has a null scraped_at and the failure
\* reason "sentinel".
C16_EmptyStringIsSentinel ==
    (pc \in {"parsed", "returned"} /\ "scraped_at" \in sheet.cols) =>
        \A i \in 1..Len(sheet.rows) :
            sheet.source[i].scraped_at = Str(<<>>) =>
                /\ sheet.rows[i].scraped_at = Null
                /\ sheet.rows[i].scraped_at_parse_fail_reason = "sentinel"

(***************************************************************************)
(* ui/utils/currency.py.  A Series is a sequence of cells; an optional     *)
(* Series is [none, values]; a scalar is a cell, Null being None.  conv   *)
(* holds the arguments (passed: as they were when the page was entered)    *)
(* and the results.                                                        *)
(***************************************************************************)
FX_RATE_DEFAULT == 15000

SomeSeries(v) == [none |-> FALSE, values |-> v]

series_to_currency(series, target_currency, fallback_series, fx_rate) ==
    IF target_currency = "IDR" THEN series
    ELSE IF /\ ~fallback_series.none
            /\ \E i \in 1..Len(fallback_series.values) : NotNa(fallback_series.values[i])
    THEN fallback_series.values
    ELSE [i \in 1..Len(series) |-> FDiv(series[i], Num(fx_rate))]

scalar_to_currency(value, target_currency, fallback_value, fx_rate) ==
    IF value = Null THEN (IF target_currency = "USD" THEN fallback_value ELSE Null)
    ELSE IF target_currency = "IDR" THEN value
    ELSE IF fallback_value # Null THEN fallback_value
    ELSE FDiv(value, Num(fx_rate))

\* the paired USD value of row i (None when there is no paired column)
FallbackAt(fallback_series, i) ==
    IF fallback_series.none THEN Null ELSE fallback_series.values[i]

\* a page projects a column
ProjectSeries ==
    /\ pc = "display"
    /\ ~conv.projected
    /\ conv' = [conv EXCEPT
                  !.projected = TRUE,
                  !.out = series_to_currency(conv.series, conv.target,
                                             conv.fallback_series, FX_RATE_DEFAULT)]
    /\ UNCHANGED <<raw, enriched, filters, filtered, now, CURRENT_YEAR, pc, alias,
                   given, sheet, reasons, call, cache>>

\* a page projects the values of the same rows one by one
ProjectScalars ==
    /\ pc = "display"
    /\ ~conv.each_done
    /\ conv' = [conv EXCEPT
                  !.each_done = TRUE,
                  !.each = [i \in 1..Len(conv.series) |->
                              scalar_to_currency(conv.series[i], conv.target,
                                                 FallbackAt(conv.fallback_series, i),
                                                 FX_RATE_DEFAULT)]]
    /\ UNCHANGED <<raw, enriched, filters, filtered, now, CURRENT_YEAR, pc, alias,
                   given, sheet, reasons, call, cache>>

(***************************************************************************)
(* Currency projection (C19, C20).                                         *)
(***************************************************************************)
IdrValues == {Null, Num(15000), Num(30000)}
UsdValues == {Null, Num(1), Num(3)}

InitCurrency ==
    /\ \E n \in 0..MaxRows : \E v \in [1..n -> IdrValues] :
       \E u \in {NoSeries} \cup {SomeSeries(w) : w \in [1..n -> UsdValues]} :
       \E target \in {"IDR", "USD"} :
          conv = [NoConv EXCEPT !.target = target, !.series = v, !.fallback_series = u,
                                !.passed = <<v, u>>]
    /\ sheet = NoSheet
    /\ reasons = <<>>
    /\ pc = "display"
    /\ PipelineIdle

NextCurrency == ProjectSeries \/ ProjectScalars
SpecCurrency == InitCurrency /\ [][NextCurrency]_vars

\* C19: the column series_to_currency returns holds, for USD, in each row the
\* row's USD value when that is non-null and otherwise the row's IDR value
\* divided by the fixed rate 15,000 (null when the IDR value is null too),
\* and for IDR the IDR values themselves.
C19_PerRowUsdPreference ==
    conv.projected =>
        /\ Len(conv.out) = Len(conv.series)
        /\ \A i \in 1..Len(conv.series) :
              LET idr == conv.series[i]
                  usd == FallbackAt(conv.fallback_series, i)
              IN conv.out[i] =
                    IF conv.target = "IDR" THEN idr
                    ELSE IF usd # Null THEN usd
                    ELSE IF idr = Null THEN Null
                    ELSE Q(idr.n, idr.d * 15000)

\* C20: once a column has been projected as a column and row by row, the two
\* results agree in every row, and the IDR and USD values are the ones
\* passed in.
C20_ScalarAndSeriesAgree ==
    /\ (conv.projected /\ conv.each_done) =>
          /\ Len(conv.out) = Len(conv.each)
          /\ \A i \in 1..Len(conv.each) : conv.out[i] = conv.each[i]
    /\ conv.passed = <<conv.series, conv.fallback_series>>

(***************************************************************************)
(* The caller's view of enrich_listings (C21).                             *)
(***************************************************************************)
\* C21: enrich_listings leaves the dataset passed to it as it was (columns
\* and cells), whether it completes or raises, and a completed run returns
\* another object than the input, with every derived column and the outlier
\* flags.
C21_InputNeverModified ==
    /\ pc # "loaded" => raw = given
    /\ pc = "enriched" =>
          /\ ~alias
          /\ DerivedCols \cup {"is_outlier", "is_outlier_any"} \subseteq enriched.cols

(***************************************************************************)
(* _estimate_lease_years called on a row as it is (C22): lease_duration    *)
(* and lease_expiry_year not coerced.  call.args is <<row>>.               *)
(***************************************************************************)
T_12_padded == <<" ", "1", "2", " ">>
T_nan == <<"n", "a", "n">>

EstimateRows ==
    {[BaseRow EXCEPT !.ownership_type = o, !.lease_duration = ld,
                     !.lease_expiry_year = x, !.description = ds] :
        o \in {Str(T_Leasehold), Str(T_Freehold)},
        ld \in {Null, Num(0), Num(25), Str(T_25_years), Str(T_150),
                Str(T_12_padded), Str(T_soon), Str(T_nan)},
        x \in {Null, Num(10), Num(30), Num(150)},
        ds \in {Null, Str(T_lease_30_yrs), Str(T_soon)}}

\* working.apply(_estimate_lease_years, axis=1) for one row
EstimateLease ==
    /\ pc = "helper"
    /\ call.fn = "_estimate_lease_years"
    /\ ~call.returned
    /\ call' = [call EXCEPT
                  !.out = _estimate_lease_years(SheetCols, call.args[1], CURRENT_YEAR),
                  !.returned = TRUE]
    /\ UNCHANGED <<raw, enriched, filters, filtered, now, CURRENT_YEAR, pc, alias,
                   given, sheet, reasons, conv, cache>>

InitEstimate ==
    /\ \E r \in EstimateRows :
          call = [NoCall EXCEPT !.fn = "_estimate_lease_years", !.args = <<r>>]
    /\ sheet = NoSheet /\ reasons = <<>> /\ conv = NoConv /\ cache = NoCache
    /\ pc = "helper"
    /\ raw = NoFrame /\ enriched = NoFrame /\ filters = DEFAULT_FILTERS
    /\ filtered = NoFrame /\ now = 0 /\ CURRENT_YEAR \in {10, 11} /\ alias = FALSE
    /\ given = NoFrame

NextEstimate == EstimateLease
SpecEstimate == InitEstimate /\ [][NextEstimate]_vars

\* the five sources of a row, each the clamped value or null when it fails
LeaseSources(r, year) ==
    LET ld == r.lease_duration
        x == r.lease_expiry_year
    IN <<IF IsFloat(ld) THEN Clip(ld, 1, 99) ELSE Null,
         IF YearsInText(ld) >= 0 THEN Clip(Num(YearsInText(ld)), 1, 99) ELSE Null,
         IF ld.k = "str" /\ IsNum(ParseFloat(Strip(ld.s)))
         THEN Clip(ParseFloat(Strip(ld.s)), 1, 99) ELSE Null,
         IF IsFloat(x) /\ FGt(x, Num(year)) THEN Clip(FSub(x, Num(year)), 1, 99) ELSE Null,
         IF YearsInText(r.description) >= 0
         THEN Clip(Num(YearsInText(r.description)), 1, 99) ELSE Null>>

FirstSuccess(sources) ==
    LET ok == {i \in 1..Len(sources) : sources[i] # Null}
    IN IF ok = {} THEN Null
       ELSE sources[CHOOSE i \in ok : \A j \in ok : i <= j]

\* C22: for a leasehold row _estimate_lease_years returns the clamped value
\* of the first source that succeeds, in the order lease_duration number,
\* lease_duration text with a year unit, lease_duration bare numeric text,
\* lease_expiry_year minus the current year when positive, description; it
\* is null when all fail.
C22_FirstSuccessWins ==
    (call.fn = "_estimate_lease_years" /\ call.returned /\ IsLeasehold(call.args[1])) =>
        call.out = FirstSuccess(LeaseSources(call.args[1], CURRENT_YEAR))

(***************************************************************************)
(* The derived ratios (C23, C26): prices, sizes and rents that are null, 0 *)
(* or set, on sale and rent listings of either tenure.                     *)
(***************************************************************************)
DerivedRows ==
    {[BaseRow EXCEPT !.listing_type = lt, !.price_idr = p,
                     !.building_size_sqm = sz[1], !.land_size_sqm = sz[2],
                     !.ownership_type = o, !.lease_duration = ld,
                     !.rent_price_month_idr = rent, !.scraped_at = Ts(0)] :
        lt \in {Str(T_for_sale), Str(T_for_rent)},
        p \in {Null, Num(0), Num(6)},
        sz \in {<<Null, Null>>, <<Num(0), Num(3)>>, <<Num(2), Num(0)>>},
        o \in {Str(T_Leasehold), Str(T_Freehold)},
        ld \in {Null, Num(25)},
        rent \in {Null, Num(5)}}

InitDerived == InitWith(DerivedRows, {SheetCols}, {10}, MaxLeaseRows)
NextDerived == Enrich
SpecDerived == InitDerived /\ [][NextDerived]_vars

\* C23: price_per_sqm_per_year of an enriched row is price_per_sqm_idr_calc
\* divided by lease_years_remaining when the latter is strictly positive and
\* null otherwise, so null for every row that is not leasehold;
\* price_per_sqm_per_year_freehold is price_per_sqm_idr_calc divided by 30
\* wherever price_per_sqm_idr_calc is not null, whatever the ownership type.
C23_Ppsy ==
    Done =>
        \A i \in 1..Len(enriched.rows) :
            LET e == enriched.rows[i]
                p == e.price_per_sqm_idr_calc
                y == e.lease_years_remaining
            IN /\ (IsNum(y) /\ y.n > 0) =>
                      e.price_per_sqm_per_year = Ratio(p, y)
               /\ ~(IsNum(y) /\ y.n > 0) => e.price_per_sqm_per_year = Null
               /\ ~IsLeasehold(raw.rows[i]) => e.price_per_sqm_per_year = Null
               /\ IsNum(p) => e.price_per_sqm_per_year_freehold = Q(p.n, p.d * 30)

C23_Witness ==
    /\ Done
    /\ \E i \in 1..Len(enriched.rows) :
          /\ IsLeasehold(raw.rows[i])
          /\ enriched.rows[i].lease_years_remaining = Num(25)
          /\ enriched.rows[i].price_per_sqm_idr_calc = Num(3)
          /\ enriched.rows[i].price_per_sqm_per_year = Q(3, 25)
          /\ enriched.rows[i].price_per_sqm_per_year_freehold = Q(1, 10)

DerivedNumeric ==
    {"price_per_sqm_idr_calc", "price_per_sqm_land_idr_calc", "price_per_sqm_per_year",
     "price_per_sqm_per_year_freehold", "annual_rent_per_sqm", "yield_pct_proxy",
     "adr_idr"}

\* C26: every derived numeric field of every enriched row is null or a
\* finite number, prices and sizes of 0 included; yield_pct_proxy is never
\* infinite.
C26_DerivedFinite ==
    Done =>
        \A i \in 1..Len(enriched.rows) : \A c \in DerivedNumeric :
            enriched.rows[i][c].k \in {"null", "num"}

(***************************************************************************)
(* _multi_parse_datetime called on a series as the worksheet gave it       *)
(* (C24).  call.args is <<series>>, call.out is [parsed, reasons].         *)
(***************************************************************************)
ParseValues ==
    {Null, Str(<<>>), Str(<<" ">>), Str(T_NA), Str(T_na_padded), Str(T_soon),
     Str(T_iso), Str(T_iso_minute), Str(T_day_first), Str(T_dashed), Str(T_feb_30)}

\* parsed, reasons = _multi_parse_datetime(series, SCRAPED_AT_PATTERNS)
MultiParse ==
    /\ pc = "helper"
    /\ call.fn = "_multi_parse_datetime"
    /\ ~call.returned
    /\ \E lenient \in BOOLEAN :
       \E res \in {_multi_parse_datetime(call.args[1], SCRAPED_AT_PATTERNS, lenient)} :
          call' = [call EXCEPT !.out = res, !.returned = TRUE]
    /\ UNCHANGED <<raw, enriched, filters, filtered, now, CURRENT_YEAR, pc, alias,
                   given, sheet, reasons, conv, cache>>

InitParse ==
    /\ \E n \in 0..MaxRows : \E series \in [1..n -> ParseValues] :
          call = [NoCall EXCEPT !.fn = "_multi_parse_datetime", !.args = <<series>>]
    /\ sheet = NoSheet /\ reasons = <<>> /\ conv = NoConv /\ cache = NoCache
    /\ pc = "helper"
    /\ raw = NoFrame /\ enriched = NoFrame /\ filters = DEFAULT_FILTERS
    /\ filtered = NoFrame /\ now = 0 /\ CURRENT_YEAR = 10 /\ alias = FALSE
    /\ given = NoFrame

NextParse == MultiParse
SpecParse == InitParse /\ [][NextParse]_vars

\* a raw value of whitespace alone, and a raw value that is a missing-token
WhitespaceOnly(c) ==
    c.k = "str" /\ c.s # <<>> /\ \A i \in 1..Len(c.s) : c.s[i] \in Whitespace
MissingToken(c) == c.k = "str" /\ Strip(c.s) \in SENTINELS /\ ~WhitespaceOnly(c)

\* C24: after _multi_parse_datetime a row that parsed has no reason, and a
\* row whose parsed value is null has one reason, given by its raw value:
\* "sentinel" for a missing-token, "blank" for whitespace alone,
\* "unparsed_format" for any other value.
C24_FailureReasons ==
    (call.fn = "_multi_parse_datetime" /\ call.returned) =>
        \A i \in 1..Len(call.args[1]) :
            LET val == call.args[1][i]
                parsed == call.out.parsed[i]
                reason == call.out.reasons[i]
            IN /\ parsed # Null => reason = "None"
               /\ parsed = Null =>
                     /\ reason \in {"sentinel", "blank", "unparsed_format"}
                     /\ MissingToken(val) => reason = "sentinel"
                     /\ WhitespaceOnly(val) => reason = "blank"
                     /\ (val.k = "str" /\ ~MissingToken(val) /\ ~WhitespaceOnly(val)) =>
                           reason = "unparsed_format"

(***************************************************************************)
(* Missing values under the predicates of apply_global_filters (C25, C29): *)
(* rows that lack a price, a date, a size, the bedrooms or a category.     *)
(***************************************************************************)
MissingRows ==
    { [PipelineBase EXCEPT !.sale_price_idr = Num(2), !.price_idr = Num(4),
                           !.bedrooms = Num(1), !.listing_date = Ts(1)],
      [PipelineBase EXCEPT !.listing_type = Str(T_for_rent), !.price_idr = Num(4),
                           !.bedrooms = Null, !.land_size_sqm = Null,
                           !.ownership_type = Null, !.area = Null],
      [PipelineBase EXCEPT !.price_idr = Num(3), !.bedrooms = Num(5),
                           !.building_size_sqm = Null, !.property_type = Null,
                           !.seller_type = Null, !.property_status = Null],
      [PipelineBase EXCEPT !.price_idr = Null, !.bedrooms = Num(3),
                           !.scraped_at = Null, !.ownership_type = Null] }

MissingOptions ==
    { <<"date_range", <<Ts(1), Ts(2)>> >>, <<"date_range", <<Ts(2), Null>> >>,
      <<"date_range", <<Null, Ts(1)>> >>,
      <<"price_range", Range(Num(3), Num(4))>>, <<"price_range", Range(Num(3), Null)>>,
      <<"price_range", Range(Null, Num(3))>>, <<"price_range", Range(Null, Null)>>,
      <<"rent_range", Range(Num(3), Null)>>, <<"rent_range", Range(Null, Num(4))>>,
      <<"building_size_range", Range(Num(2), Null)>>,
      <<"land_size_range", Range(Null, Num(3))>>,
      <<"bedrooms_bucket", List({"1", "5+"})>>, <<"bedrooms_bucket", List({"3-4"})>>,
      <<"bedrooms_bucket", List({"studio"})>>,
      <<"listing_type", Str(T_For_Sale)>>,
      <<"property_types", List({T_Villa})>>, <<"areas", List({T_Ubud})>>,
      <<"ownership", List({T_Freehold})>>, <<"property_status", List({T_Ready})>>,
      <<"seller_type", List({T_Agent})>> }

MissingFilters ==
    {DEFAULT_FILTERS} \cup {WithOption(DEFAULT_FILTERS, o) : o \in MissingOptions}

InitMissing == InitWith(MissingRows, {SheetCols, SheetCols \ {"bedrooms"}}, {10}, MaxRows)
NextMissing == Enrich \/ Filter(MissingFilters)
SpecMissing == InitMissing /\ [][NextMissing]_vars

\* the value the sale price range reads in a row
SalePriceValue(r) == IF r.price_sale_idr # Null THEN r.price_sale_idr ELSE r.price_idr

\* a range with at least one bound
HasBound(g) == TruthyRange(g) /\ (g.lo # Null \/ g.hi # Null)

\* C25: with a sale price range set (a lower bound, an upper bound or both),
\* of the rows the rest of the specification retains, apply_global_filters
\* retains exactly those whose price_sale_idr (price_idr when price_sale_idr
\* is null) is not null and lies within the inclusive bounds; both bounds
\* read that same value of the row, also where the lower bound removed the
\* rows before it.
C25_SalePriceFallback ==
    (Filtered /\ HasBound(filters.price_range)) =>
        Ids(filtered) =
            {i \in Retained([filters EXCEPT !.price_range = NoRange]) :
                LET v == SalePriceValue(RowOf(enriched, i))
                IN v # Null /\ Within(filters.price_range.lo, filters.price_range.hi, v)}

\* range 3..4 over rows priced 2 (sale price, raw price 4), 4 (a rental,
\* raw price only) and none: the rental alone is retained
C25_Witness ==
    /\ Filtered
    /\ filters.price_range = Range(Num(3), Num(4))
    /\ Len(enriched.rows) = 2
    /\ enriched.rows[1].price_sale_idr = Num(2)
    /\ enriched.rows[1].price_idr = Num(4)
    /\ enriched.rows[2].price_sale_idr = Null
    /\ enriched.rows[2].price_idr = Num(4)
    /\ Ids(filtered) = {enriched.rows[2].id}

\* the columns the set-membership predicates read
ListColumn(fld) ==
    CASE fld = "property_types" -> "property_type"
      [] fld = "areas" -> "area"
      [] fld = "property_status" -> "property_status"
      [] fld = "seller_type" -> "seller_type"

\* C29: a row that lacks the value an active predicate reads is not
\* retained: a null anchor date under a date bound, null bedrooms under a
\* recognised bucket, a null price, rent, building size or land size under a
\* range with a bound, a null category under a selection, a null listing
\* type under a listing type; under the ownership selection a sale row
\* without ownership type is removed and the rows that are not for sale are
\* kept.
C29_MissingNeverMatches ==
    Filtered =>
        \A i \in 1..Len(enriched.rows) :
            LET r == enriched.rows[i]
                kept == r.id \in Ids(filtered)
                f == filters
            IN /\ ((f.date_range[1] # Null \/ f.date_range[2] # Null)
                      /\ r.listing_date_effective = Null) => ~kept
               /\ ((\E b \in f.bedrooms_bucket.items : b \in {"1", "2", "3-4", "5+"})
                      /\ "bedrooms" \in enriched.cols /\ r.bedrooms = Null) => ~kept
               /\ (HasBound(f.price_range) /\ SalePriceValue(r) = Null) => ~kept
               /\ (HasBound(f.rent_range) /\ r.rent_price_month_idr_norm = Null) => ~kept
               /\ (HasBound(f.building_size_range) /\ r.building_size_sqm = Null) => ~kept
               /\ (HasBound(f.land_size_range) /\ r.land_size_sqm = Null) => ~kept
               /\ \A fld \in {"property_types", "areas", "property_status", "seller_type"} :
                     (TruthyList(f[fld]) /\ r[ListColumn(fld)] = Null) => ~kept
               /\ (f.listing_type # Null /\ r.listing_type = Null) => ~kept
               /\ TruthyList(f.ownership) =>
                     IF IsForSale(r) THEN r.ownership_type = Null => ~kept
                     ELSE kept

\* a rental without land size and without bedrooms next to a sale row
\* without dates: each is removed by the predicate that reads what it lacks
C29_Witness ==
    /\ Filtered
    /\ Len(enriched.rows) = 2
    /\ enriched.rows[1].land_size_sqm = Null /\ enriched.rows[1].bedrooms = Null
    /\ enriched.rows[2].listing_date_effective = Null
    /\ enriched.rows[2].land_size_sqm = Num(3)
    /\ \/ /\ filters.land_size_range = Range(Null, Num(3))
          /\ Ids(filtered) = {enriched.rows[2].id}
       \/ /\ filters.date_range = <<Null, Ts(1)>>
          /\ Ids(filtered) = {}
       \/ /\ filters.bedrooms_bucket = List({"3-4"})
          /\ "bedrooms" \in enriched.cols
          /\ Ids(filtered) = {enriched.rows[2].id}

(***************************************************************************)
(* The extremes of a monitored field (C27).                                *)
(***************************************************************************)
\* the rows of the enriched dataset with a value in column c
Valued(c) == {i \in 1..Len(enriched.rows) : NotNa(enriched.rows[i][c])}

SoleMinimum(c, i) ==
    i \in Valued(c)
    /\ \A j \in Valued(c) \ {i} : FLt(enriched.rows[i][c], enriched.rows[j][c])

SoleMaximum(c, i) ==
    i \in Valued(c)
    /\ \A j \in Valued(c) \ {i} : FGt(enriched.rows[i][c], enriched.rows[j][c])

\* C27: where a monitored field has two values or more, the one row that
\* holds its minimum and the one row that holds its maximum are flagged on
\* that field, and hide_outliers removes them; where all the values of a
\* field are equal no row is flagged on it.
C27_ExtremesFlagged ==
    Done =>
        \A c \in OutlierColumnSet :
            /\ Cardinality(Valued(c)) >= 2 =>
                  \A i \in Valued(c) :
                      (SoleMinimum(c, i) \/ SoleMaximum(c, i)) =>
                          /\ enriched.rows[i].is_outlier[c]
                          /\ enriched.rows[i].is_outlier_any
                          /\ (Filtered /\ filters.hide_outliers) =>
                                enriched.rows[i].id \notin Ids(filtered)
            /\ (\A i, j \in Valued(c) : enriched.rows[i][c] = enriched.rows[j][c]) =>
                  \A i \in Valued(c) : ~enriched.rows[i].is_outlier[c]

(***************************************************************************)
(* Reruns of main() over the cached load (C28).  call is the run:          *)
(* call.args is <<pressed>>, the value of the Refresh Data button, and     *)
(* call.out tells whether the run cleared the cache and whether its load   *)
(* fetched from the source.  cache.entry is <<>> or <<frame>>.             *)
(***************************************************************************)
ttl == 600

\* the functions st.cache_data wraps, which have a clear() attribute
cached_functions == {"_load_data_impl"}

Snapshots ==
    {Frame(SheetCols, <<>>), Frame(SheetCols, <<PipelineRows[1]>>),
     Frame(SheetCols, <<PipelineRows[1], PipelineRows[2]>>)}

AppFilters == {DEFAULT_FILTERS, WithOption(DEFAULT_FILTERS, <<"hide_outliers", TRUE>>)}

\* a user interaction starts the script again, after a run that rendered or
\* one that raised
Rerun ==
    /\ pc \in {"idle", "raised"}
    /\ \E pressed \in BOOLEAN :
          call' = [fn |-> "main", args |-> <<pressed>>,
                   out |-> [cleared |-> FALSE, fetched |-> FALSE], returned |-> FALSE]
    /\ raw' = NoFrame /\ enriched' = NoFrame /\ filtered' = NoFrame
    /\ filters' = DEFAULT_FILTERS /\ alias' = FALSE /\ given' = NoFrame
    /\ pc' = "button"
    /\ UNCHANGED <<now, CURRENT_YEAR, sheet, reasons, conv, cache>>

\* app.py lines 95-96: load_data.clear() is an attribute of the plain wrapper
\* load_data; a function st.cache_data does not wrap has no clear()
RefreshButton ==
    /\ pc = "button"
    /\ IF ~call.args[1] THEN pc' = "load" /\ UNCHANGED <<call, cache>>
       ELSE IF "load_data" \in cached_functions
       THEN /\ cache' = NoCache
            /\ call' = [call EXCEPT !.out.cleared = TRUE]
            /\ pc' = "load"
       ELSE pc' = "raised" /\ UNCHANGED <<call, cache>>
    /\ UNCHANGED <<raw, enriched, filters, filtered, now, CURRENT_YEAR, alias, given,
                   sheet, reasons, conv>>

\* app.py line 98: the entry is returned while it is younger than ttl
\* seconds, else the source is read and the result stored
LoadData ==
    /\ pc = "load"
    /\ IF cache.entry # <<>> /\ (now - cache.stored_at) * (86400 \div TicksPerDay) < ttl
       THEN raw' = cache.entry[1] /\ UNCHANGED <<call, cache>>
       ELSE \E snapshot \in Snapshots :
               /\ raw' = snapshot
               /\ cache' = [entry |-> <<snapshot>>, stored_at |-> now]
               /\ call' = [call EXCEPT !.out.fetched = TRUE]
    /\ pc' = "loaded"
    /\ UNCHANGED <<enriched, filters, filtered, now, CURRENT_YEAR, alias, given,
                   sheet, reasons, conv>>

\* app.py lines 103-131
Render ==
    /\ pc = "filtered"
    /\ call' = [call EXCEPT !.returned = TRUE]
    /\ pc' = "idle"
    /\ UNCHANGED <<raw, enriched, filters, filtered, now, CURRENT_YEAR, alias, given,
                   sheet, reasons, conv, cache>>

InitApp ==
    /\ raw = NoFrame /\ enriched = NoFrame /\ filters = DEFAULT_FILTERS
    /\ filtered = NoFrame /\ now = 0 /\ CURRENT_YEAR = 10 /\ alias = FALSE
    /\ given = NoFrame
    /\ AsideIdle
    /\ pc = "idle"

NextApp ==
    Rerun \/ RefreshButton \/ LoadData \/ Tick \/ Enrich \/ Filter(AppFilters) \/ Render
SpecApp == InitApp /\ [][NextApp]_vars

\* C28: in a run where Refresh Data is pressed, main clears the cache of the
\* data load and goes on to load, enrich, filter and render without an
\* error, and the load of that run reads the source again.
C28_RefreshReloads ==
    (call.fn = "main" /\ call.args[1]) =>
        /\ pc # "raised"
        /\ pc # "button" => call.out.cleared
        /\ (pc \in {"loaded", "enriched", "filtered"} \/ call.returned) => call.out.fetched

(***************************************************************************)
(* The dictionary-based apply_filters of src/src/utils/filters_apply.py    *)
(* called on its own (C30).  Its frame is what load_data returns in the    *)
(* legacy src/src/app.py, or an enriched frame: df.datetime is the set of  *)
(* columns of datetime64 dtype and df.utc tells whether they are           *)
(* tz-aware.  The dictionary is a function from the keys it holds;         *)
(* date_range is the tuple (start, end) with the tz-awareness of its       *)
(* timestamps.                                                             *)
(***************************************************************************)

\* filters.get(key, default)
Get(d, key, default) == IF key \in DOMAIN d THEN d[key] ELSE default

\* out["price_idr"].isna() | bound, without the include_missing switch
missing_or_bound_always(include_missing, v, ok) == v = Null \/ ok

\* (out[col].isna()) | bound when include_missing, else bound alone
missing_or_bound(include_missing, v, ok) ==
    IF include_missing THEN v = Null \/ ok ELSE ok

\* date_col of apply_filters: listing_date when it is a datetime column,
\* else scraped_at when that is one, else None
date_col(df) ==
    IF "listing_date" \in df.cols /\ "listing_date" \in df.datetime THEN "listing_date"
    ELSE IF "scraped_at" \in df.cols /\ "scraped_at" \in df.datetime THEN "scraped_at"
    ELSE "None"

\* the frame apply_filters returns, or the TypeError of comparing tz-aware
\* with tz-naive timestamps
apply_filters(df, f) ==
    LET pt == Get(f, "property_type", {})
        ar == Get(f, "area", {})
        s1 == IF pt # {} /\ "property_type" \in df.cols
              THEN SelectSeq(df.rows, LAMBDA r :
                       r.property_type.k = "str" /\ r.property_type.s \in pt)
              ELSE df.rows
        s2 == IF ar # {} /\ "area" \in df.cols
              THEN SelectSeq(s1, LAMBDA r : r.area.k = "str" /\ r.area.s \in ar)
              ELSE s1
        lo == Get(f, "price_idr_min", Null)
        hi == Get(f, "price_idr_max", Null)
        include_missing_price == Get(f, "include_missing_price", TRUE)
        s3a == IF "price_idr" \in df.cols /\ lo # Null
               THEN SelectSeq(s2, LAMBDA r :
                        missing_or_bound(include_missing_price, r.price_idr,
                                         Leq(lo, r.price_idr)))
               ELSE s2
        s3 == IF "price_idr" \in df.cols /\ hi # Null
              THEN SelectSeq(s3a, LAMBDA r :
                       missing_or_bound(include_missing_price, r.price_idr,
                                        Leq(r.price_idr, hi)))
              ELSE s3a
        bedrooms == Get(f, "bedrooms", NoRange)
        include_missing_bedrooms == Get(f, "include_missing_bedrooms", TRUE)
        s4 == IF ~bedrooms.none /\ "bedrooms" \in df.cols
              THEN SelectSeq(s3, LAMBDA r :
                       missing_or_bound(include_missing_bedrooms, r.bedrooms,
                                        Leq(bedrooms.lo, r.bedrooms)
                                            /\ Leq(r.bedrooms, bedrooms.hi)))
              ELSE s3
        dr == Get(f, "date_range", [none |-> TRUE])
        col == date_col(df)
        dates == ~dr.none /\ (df.cols \cap {"listing_date", "scraped_at"}) # {}
                    /\ col # "None" /\ (dr.start # Null \/ dr.end # Null)
    IN IF ~dates THEN [rows |-> s4, err |-> ""]
       ELSE IF dr.utc # df.utc THEN [rows |-> <<>>, err |-> "TypeError"]
       ELSE LET notna == SelectSeq(s4, LAMBDA r : r[col] # Null)
                d1 == IF dr.start # Null
                      THEN SelectSeq(notna, LAMBDA r : Leq(dr.start, r[col]))
                      ELSE notna
                dated == IF dr.end # Null
                         THEN SelectSeq(d1, LAMBDA r : Leq(r[col], dr.end))
                         ELSE d1
                missing == SelectSeq(s4, LAMBDA r : r[col] = Null)
            IN [rows |-> dated \o missing, err |-> ""]

\* filtered = apply_filters(df, filters)
ApplyFilters ==
    /\ pc = "helper"
    /\ call.fn = "apply_filters"
    /\ ~call.returned
    /\ call' = [call EXCEPT !.out = apply_filters(call.args[1], call.args[2]),
                            !.returned = TRUE]
    /\ UNCHANGED <<raw, enriched, filters, filtered, now, CURRENT_YEAR, pc, alias,
                   given, sheet, reasons, conv, cache>>

\* rows as load_data types them: numeric price and bedrooms, timestamps
ApplyRows ==
    { [property_type |-> Str(T_Villa), area |-> Str(T_Ubud), price_idr |-> Num(3),
       bedrooms |-> Num(2), listing_date |-> Ts(1), scraped_at |-> Ts(2)],
      [property_type |-> Str(T_Villa), area |-> Null, price_idr |-> Null,
       bedrooms |-> Num(4), listing_date |-> Ts(2), scraped_at |-> Null],
      [property_type |-> Null, area |-> Str(T_Ubud), price_idr |-> Num(5),
       bedrooms |-> Null, listing_date |-> Null, scraped_at |-> Ts(1)],
      [property_type |-> Str(T_Villa), area |-> Str(T_Ubud), price_idr |-> Null,
       bedrooms |-> Null, listing_date |-> Ts(3), scraped_at |-> Ts(3)] }

ApplyCols == {"property_type", "area", "price_idr", "bedrooms", "listing_date", "scraped_at"}

\* the frames: what load_data returns (tz-aware dates), an enriched frame
\* without listing_date (tz-naive), a sheet without price, bedrooms and
\* parsed dates
ApplyShapes ==
    { [cols |-> ApplyCols, datetime |-> {"listing_date", "scraped_at"}, utc |-> TRUE],
      [cols |-> ApplyCols \ {"listing_date"}, datetime |-> {"scraped_at"}, utc |-> FALSE],
      [cols |-> ApplyCols \ {"price_idr", "bedrooms"}, datetime |-> {}, utc |-> FALSE] }

ApplyFrame(shape, f) ==
    [cols |-> shape.cols, datetime |-> shape.datetime, utc |-> shape.utc,
     rows |-> [i \in DOMAIN f |->
                 [c \in ApplyCols \cup {"id"} |->
                    IF c = "id" THEN Num(i)
                    ELSE IF c \in shape.cols THEN f[i][c] ELSE Null]]]

DateRange(start, end, utc) == [none |-> FALSE, start |-> start, end |-> end, utc |-> utc]

\* the dictionaries: what sidebar_filters returns, and the same without the
\* include_missing keys
ApplyDicts ==
    { LET base == [property_type |-> pt, area |-> {}, price_idr_min |-> p[1],
                   price_idr_max |-> p[2], bedrooms |-> b, date_range |-> d]
          withPrice == IF ip = "absent" THEN base
                       ELSE base @@ ("include_missing_price" :> (ip = "true"))
      IN IF ib = "absent" THEN withPrice
         ELSE withPrice @@ ("include_missing_bedrooms" :> (ib = "true")) :
        pt \in {{}, {T_Villa}},
        p \in {<<Null, Null>>, <<Num(4), Null>>, <<Num(3), Num(4)>>},
        b \in {NoRange, Range(Num(2), Num(3))},
        d \in {DateRange(Null, Null, TRUE), DateRange(Ts(2), Ts(3), TRUE),
               DateRange(Null, Ts(1), TRUE), DateRange(Ts(1), Ts(2), FALSE)},
        ip \in {"absent", "true", "false"},
        ib \in {"absent", "true", "false"} }

InitApply ==
    /\ \E n \in 0..MaxRows : \E f \in [1..n -> ApplyRows] : \E shape \in ApplyShapes :
       \E d \in ApplyDicts :
          call = [NoCall EXCEPT !.fn = "apply_filters",
                                !.args = <<ApplyFrame(shape, f), d>>]
    /\ sheet = NoSheet /\ reasons = <<>> /\ conv = NoConv /\ cache = NoCache
    /\ pc = "helper"
    /\ raw = NoFrame /\ enriched = NoFrame /\ filters = DEFAULT_FILTERS
    /\ filtered = NoFrame /\ now = 0 /\ CURRENT_YEAR = 10 /\ alias = FALSE
    /\ given = NoFrame

NextApply == ApplyFilters
SpecApply == InitApply /\ [][NextApply]_vars

\* apply_filters returned a frame
Applied == call.fn = "apply_filters" /\ call.returned /\ call.out.err = ""

\* the dictionary without the given keys
Without(d, keys) == [k \in DOMAIN d \ keys |-> d[k]]

\* the ids of the rows apply_filters retains under the dictionary d
KeptUnder(d) == {r.id : r \in {apply_filters(call.args[1], d).rows[i] :
                        i \in 1..Len(apply_filters(call.args[1], d).rows)}}

\* C30: in apply_filters the missing-data policy is per field.  Of the rows
\* the rest of the dictionary retains, a row with null price_idr is retained
\* by the price bounds when include_missing_price is true or absent, and is
\* removed when it is false and a bound is set; the same for bedrooms with
\* include_missing_bedrooms; under the date range a row whose date (its
\* listing_date when that column holds timestamps, else its scraped_at) is
\* null is retained, and a row with a date is retained exactly when the date
\* lies within the inclusive bounds.
C30_MissingPolicyPerField ==
    Applied =>
        LET df == call.args[1]
            d == call.args[2]
            kept == KeptUnder(d)
            noPrice == KeptUnder(Without(d, {"price_idr_min", "price_idr_max"}))
            noBeds == KeptUnder(Without(d, {"bedrooms"}))
            noDates == KeptUnder(Without(d, {"date_range"}))
            priceBound == "price_idr" \in df.cols
                             /\ (d.price_idr_min # Null \/ d.price_idr_max # Null)
            bedsBound == "bedrooms" \in df.cols /\ ~d.bedrooms.none
            col == date_col(df)
            dateBound == col # "None" /\ (d.date_range.start # Null \/ d.date_range.end # Null)
        IN \A i \in 1..Len(df.rows) :
              LET r == df.rows[i]
              IN /\ (r.id \in noPrice /\ r.price_idr = Null) =>
                        IF Get(d, "include_missing_price", TRUE) THEN r.id \in kept
                        ELSE priceBound => r.id \notin kept
                 /\ (r.id \in noBeds /\ r.bedrooms = Null) =>
                        IF Get(d, "include_missing_bedrooms", TRUE) THEN r.id \in kept
                        ELSE bedsBound => r.id \notin kept
                 /\ (r.id \in noDates /\ dateBound) =>
                        IF r[col] = Null THEN r.id \in kept
                        ELSE r.id \in kept <=>
                                Within(d.date_range.start, d.date_range.end, r[col])

\* include_missing_price false with a lower bound of 4, bedrooms 2..3 with
\* the default policy, dates 2..3: the row priced 5 without bedrooms and
\* listing date stays, the row of day 3 without price, which the rest of
\* the dictionary retains, is removed
C30_Witness ==
    /\ Applied
    /\ "include_missing_price" \in DOMAIN call.args[2]
    /\ ~call.args[2].include_missing_price
    /\ "include_missing_bedrooms" \notin DOMAIN call.args[2]
    /\ call.args[2].price_idr_min = Num(4)
    /\ ~call.args[2].bedrooms.none
    /\ call.args[2].date_range.start = Ts(2)
    /\ call.args[1].datetime = {"listing_date", "scraped_at"}
    /\ Len(call.args[1].rows) = 2
    /\ call.args[1].rows[1].price_idr = Num(5)
    /\ call.args[1].rows[1].bedrooms = Null
    /\ call.args[1].rows[1].listing_date = Null
    /\ call.args[1].rows[2].price_idr = Null
    /\ call.args[1].rows[2].listing_date = Ts(3)
    /\ KeptUnder(Without(call.args[2], {"price_idr_min", "price_idr_max"})) = {Num(1), Num(2)}
    /\ KeptUnder(call.args[2]) = {Num(1)}
====
